---- MODULE Spec2Model ----
(***************************************************************************)
(* ModelPulse (ComfyUI-ModelPulse): the usage-tracking datastore.          *)
(*                                                                         *)
(*   SpecLock     processes that only acquire and release FileLock         *)
(*                (py/storage.py, class FileLock) on one data file.        *)
(*   Spec         processes, each with its own ModelTracker, that record   *)
(*                usage and query against one data file: load_data,        *)
(*                save_data and FileLock statement by statement, with      *)
(*                crashes and input/output errors.  A document is          *)
(*                abstracted to the usage_count of one model identifier    *)
(*                (0: the identifier has no record).                       *)
(*   SpecTracker  one process with one ModelTracker and documents in full: *)
(*                the host hook tracked_execute, record_usage,             *)
(*                get_model_detail, cleanup and reset, each one step, on   *)
(*                a data file that is absent, corrupted, current, older or *)
(*                newer; lock timeouts and failed saves are inputs.        *)
(*   SpecMigrate  migrate_schema statement by statement, then applied      *)
(*                again to the document it returned.                       *)
(*                                                                         *)
(* Time is measured in seconds.  The model keeps ages (now - mtime,        *)
(* now - start) instead of absolute times; an age saturates at AgeCap,     *)
(* which is above the timeout, so every comparison with the timeout is     *)
(* exact.                                                                  *)
(***************************************************************************)
EXTENDS Integers, Sequences, FiniteSets, TLC

\* ------------------------------------------------------------------ bounds

\* Seconds that pass in one step of the clock.
TickSeconds == 5

\* Recordings (record_usage calls) in one behaviour of Spec.
MaxRecords == 2

\* Process crashes in one behaviour of Spec.
MaxCrashes == 1

\* Clock ticks in one calendar day (the clock of the detailed tracker).
TicksPerDay == 2

\* Operations of the tracker (or runs of migrate_schema) in one behaviour.
MaxCalls == 3

\* The last tick of the clock of the detailed tracker (it starts at 1; the
\* documents found at the start were written at 0).
MaxClock == 2

\* The largest max_days a cleanup is called with.
MaxDays == 2
MaxSteps == 4
MaxNodes == 2

\* ------------------------------------------------------- program constants

\* SCHEMA_VERSION = 1
SCHEMA_VERSION == 1

\* FileLock.__init__(self, path, timeout: float = 10.0)
timeout == 10

\* ------------------------------------------------------------------- sets

\* The operating-system processes that share the data file.
Procs == {"p1", "p2", "p3"}

\* The processes of Spec that run a ModelTracker.
Writers == {"p1", "p2"}

AgeCap == timeout + TickSeconds

\* ModelTracker._data is None
None == -1

\* File contents: no file, a file that does not parse, a document.
Absent == [k |-> "absent", n |-> 0]
Partial == [k |-> "partial", n |-> 0]
Doc(n) == [k |-> "doc", n |-> n]

NoEvent == [kind |-> "none", p |-> "none", n |-> 0]

Min(a, b) == IF a < b THEN a ELSE b

Older(age) == Min(age + TickSeconds, AgeCap)

\* --------------------------------------------------------------- documents
\* A JSON object is a function from its keys; a timestamp (isoformat, ordered as
\* text) is the number of clock ticks, and its date is DateOf.

EmptyObj == [k \in {} |-> 0]

Has(obj, key) == key \in DOMAIN obj

\* obj.get(key, default)
Get(obj, key, default) == IF key \in DOMAIN obj THEN obj[key] ELSE default

\* obj[key] = val
Put(obj, key, val) == [k \in DOMAIN obj \cup {key} |-> IF k = key THEN val ELSE obj[k]]

\* now.date().isoformat()
DateOf(ts) == ts \div TicksPerDay

AbsentFile == [k |-> "absent"]
CorruptFile == [k |-> "corrupt"]
DocFile(d) == [k |-> "doc", d |-> d]

\* ModelTracker._data is None (the detailed tracker)
NoData == [none |-> TRUE]

create_empty_data(now) ==
    [version |-> SCHEMA_VERSION,
     models |-> EmptyObj,
     metadata |-> [tracking_started |-> now, last_updated |-> now]]

\* migrate_to_v1: if "usage_log" not in model_data: model_data["usage_log"] = []
with_usage_log(md) == IF Has(md, "usage_log") THEN md ELSE Put(md, "usage_log", <<>>)

\* migrate_to_v1: if "first_used" not in model_data: ... = model_data.get("last_used", now)
with_first_used(md, now) ==
    IF Has(md, "first_used") THEN md ELSE Put(md, "first_used", Get(md, "last_used", now))

\* migrate_to_v1, the body of the loop over data["models"]
migrate_record(md, now) == with_first_used(with_usage_log(md), now)

\* migrate_to_v1: if "models" not in data: data["models"] = {}
with_models(d) == IF Has(d, "models") THEN d ELSE Put(d, "models", EmptyObj)

\* migrate_to_v1: if "metadata" not in data: data["metadata"] = {...}
with_metadata(d, now) ==
    IF Has(d, "metadata") THEN d
    ELSE Put(d, "metadata", [tracking_started |-> now, last_updated |-> now])

\* migrate_to_v1: for model_id, model_data in data.get("models", {}).items()
with_records(d, now) ==
    Put(d, "models", [m \in DOMAIN d.models |-> migrate_record(d.models[m], now)])

migrate_to_v1(d, now) == with_records(with_metadata(with_models(d), now), now)

\* current_version = data.get("version", 0)
current_version(d) == Get(d, "version", 0)

\* A version test that takes no document for current (C10 rules it out).
never_current(d) == FALSE

\* if current_version == SCHEMA_VERSION: return data
is_current(d) == current_version(d) = SCHEMA_VERSION

\* if current_version < 1: data = migrate_to_v1(data)
apply_migrations(d, now) == IF current_version(d) < 1 THEN migrate_to_v1(d, now) ELSE d

\* A migration that leaves the version as it found it (C8 rules it out).
keep_version(d) == d

\* data["version"] = SCHEMA_VERSION
stamp_version(d) == Put(d, "version", SCHEMA_VERSION)

\* A migration that writes no backup (C9 rules it out).
skip_backup(d, bk) == bk

\* with open(backup_path, "w") as f: json.dump(data, f, indent=2)
backup_write(d, bk) == DocFile(d)

\* migrate_schema(data): the document returned, the backup file afterwards, and
\* whether the backup file was written
migrate_schema(d, bk, now) ==
    IF is_current(d)
    THEN [data |-> d, backup |-> bk, wrote |-> FALSE]
    ELSE [data |-> stamp_version(apply_migrations(d, now)),
          backup |-> backup_write(d, bk), wrote |-> TRUE]

\* data["metadata"]["last_updated"] = datetime.utcnow().isoformat() + "Z"
stamp_last_updated(d, now) == Put(d, "metadata", Put(d.metadata, "last_updated", now))

\* save_data(data) in one process.  out: "ok", or the exception the FileLock
\* ("TimeoutError") or the write or replace ("OSError") raises.  The stamp of
\* last_updated is made on the caller's document before anything can fail.
save_data(d, f, now, out) ==
    IF ~Has(d, "metadata")
    THEN [exc |-> "KeyError", data |-> d, file |-> f]
    ELSE IF out = "ok"
    THEN [exc |-> "none", data |-> stamp_last_updated(d, now),
          file |-> DocFile(stamp_last_updated(d, now))]
    ELSE [exc |-> out, data |-> stamp_last_updated(d, now), file |-> f]

\* load_data: data = create_empty_data(); save_data(data); return data
\* (s: what save_data did; the exception of save_data propagates)
load_created(s, bk, q) ==
    [exc |-> s.exc, data |-> s.data, file |-> s.file, backup |-> bk, quar |-> q]

\* load_data: data = migrate_schema(data); return data
load_migrated(m, f, q) ==
    [exc |-> "none", data |-> m.data, file |-> f, backup |-> m.backup, quar |-> q]

\* load_data() in one process.  rd: the outcome of the FileLock of the read;
\* sv: the outcome of the save_data it may call.  q: the names (timestamps) of the
\* corrupted files moved aside so far.
load_data(f, bk, q, now, rd, sv) ==
    IF f.k = "absent"
    THEN load_created(save_data(create_empty_data(now), f, now, sv), bk, q)
    ELSE IF rd # "ok"
    THEN [exc |-> rd, data |-> NoData, file |-> f, backup |-> bk, quar |-> q]
    ELSE IF f.k = "notobject"      \* data.get in migrate_schema: AttributeError
    THEN [exc |-> "AttributeError", data |-> NoData, file |-> f, backup |-> bk, quar |-> q]
    ELSE IF f.k = "corrupt"        \* json.JSONDecodeError: backup_corrupted_file
    THEN load_created(save_data(create_empty_data(now), AbsentFile, now, sv),
                      bk, q \cup {now})
    ELSE load_migrated(migrate_schema(f.d, bk, now), f, q)

\* record_usage: the entry created for a new model
new_record(ref, now) ==
    [category |-> ref.category, name |-> ref.name, path |-> ref.model_id,
     first_used |-> now, last_used |-> now, usage_count |-> 0, usage_log |-> <<>>]

\* An update that adds an entry for every use (C12 rules it out).
log_append(log, today) == Append(log, [date |-> today, count |-> 1])

\* record_usage: the update of the daily usage log
log_usage(log, today) ==
    IF Len(log) > 0 /\ log[Len(log)].date = today
    THEN [log EXCEPT ![Len(log)].count = @ + 1]
    ELSE Append(log, [date |-> today, count |-> 1])

\* record_usage: if model_id not in self.data["models"]: create the entry
with_record(ms, ref, now) ==
    IF ref.model_id \in DOMAIN ms THEN ms ELSE Put(ms, ref.model_id, new_record(ref, now))

\* model_data["last_used"] = now_iso
touch(rec, now) == Put(rec, "last_used", now)

\* A recording that sets the count to 1 instead of adding 1 (C3 rules it out).
count_first_use(rec) == Put(rec, "usage_count", 1)

\* A recording that logs the use and leaves the count as it was (C24 rules it out).
keep_count(rec) == rec

\* model_data["usage_count"] += 1
count_use(rec) == Put(rec, "usage_count", rec.usage_count + 1)

\* usage_log = model_data["usage_log"]; increment its last entry or append
log_use(rec, now) == Put(rec, "usage_log", log_usage(rec.usage_log, DateOf(now)))

\* record_usage: the updates of one record; a missing key raises KeyError after
\* the assignments before it
update_record(rec, now) ==
    IF ~Has(rec, "usage_count")
    THEN [exc |-> "KeyError", rec |-> touch(rec, now)]
    ELSE IF ~Has(rec, "usage_log")
    THEN [exc |-> "KeyError", rec |-> count_use(touch(rec, now))]
    ELSE [exc |-> "none", rec |-> log_use(count_use(touch(rec, now)), now)]

\* The document with the records ms, the record of id updated as u says.
put_record(d, ms, id, u) == [exc |-> u.exc, data |-> Put(d, "models", Put(ms, id, u.rec))]

\* record_usage: model_data = self.data["models"][model_id] and its updates
record_in(d, ms, id, now) == put_record(d, ms, id, update_record(ms[id], now))

\* record_usage: the loop body for one reference
record_one(d, ref, now) ==
    IF ~Has(d, "models")
    THEN [exc |-> "KeyError", data |-> d]
    ELSE record_in(d, with_record(d.models, ref, now), ref.model_id, now)

\* record_usage: for model in models (from the i-th reference on)
RECURSIVE record_loop(_, _, _, _)

\* r: what the loop body did for the i-th reference
record_next(r, refs, i, now) ==
    IF r.exc # "none" THEN r ELSE record_loop(r.data, refs, i + 1, now)

record_loop(d, refs, i, now) ==
    IF i > Len(refs)
    THEN [exc |-> "none", data |-> d]
    ELSE record_next(record_one(d, refs[i], now), refs, i, now)

\* entry.get("date", "") >= cutoff_str, for the entries of one log
\* A filter that drops the entries of the cutoff date too (C16 rules it out).
newer(log, cutoff) == SelectSeq(log, LAMBDA e : e.date > cutoff)

recent(log, cutoff) == SelectSeq(log, LAMBDA e : e.date >= cutoff)

\* cleanup_old_usage_logs(data, max_days)
cleanup_old_usage_logs(d, max_days, now) ==
    IF ~Has(d, "models") THEN d
    ELSE Put(d, "models",
             [m \in DOMAIN d.models |->
                 Put(d.models[m], "usage_log",
                     recent(Get(d.models[m], "usage_log", <<>>), DateOf(now) - max_days))])

\* ------------------------------------------------------ json.dump, json.load
\* The text of a JSON file is the sequence of its tokens (indentation carries no
\* value).  The encoder follows the layout of the usage document: which keys hold
\* an object, an array or a scalar.

Tok(t, v) == [t |-> t, v |-> v]
Punct(c) == Tok(c, "")

\* what the value under each key of the document is
JsonKind ==
    [version |-> "num", models |-> "map", metadata |-> "obj",
     tracking_started |-> "str", last_updated |-> "str",
     category |-> "str", name |-> "str", path |-> "str",
     first_used |-> "str", last_used |-> "str", usage_count |-> "num",
     usage_log |-> "arr", date |-> "str", count |-> "num"]

\* the members of "models" are the records, whatever their keys
member_kind(kind, key) == IF kind = "map" THEN "obj" ELSE JsonKind[key]

\* the keys of a dict, one after the other
RECURSIVE keys_of(_)
keys_of(S) ==
    IF S = {} THEN <<>>
    ELSE <<CHOOSE k \in S : TRUE>> \o keys_of(S \ {CHOOSE k \in S : TRUE})

separator(i) == IF i > 1 THEN <<Punct(",")>> ELSE <<>>

RECURSIVE dump_value(_, _)
RECURSIVE dump_members(_, _, _, _)
RECURSIVE dump_items(_, _)

\* An encoder that writes every array empty (C11 rules it out).
dump_no_items(arr, i) == <<>>

\* the elements of a list from the i-th on
dump_items(arr, i) ==
    IF i > Len(arr) THEN <<>>
    ELSE separator(i) \o dump_value("obj", arr[i]) \o dump_items(arr, i + 1)

\* the members of a dict from the i-th key on: "key": value
dump_members(kind, obj, ks, i) ==
    IF i > Len(ks) THEN <<>>
    ELSE separator(i) \o <<Tok("str", ks[i]), Punct(":")>>
         \o dump_value(member_kind(kind, ks[i]), obj[ks[i]])
         \o dump_members(kind, obj, ks, i + 1)

dump_value(kind, v) ==
    IF kind \in {"num", "str"} THEN <<Tok(kind, v)>>
    ELSE IF kind = "arr" THEN <<Punct("[")>> \o dump_items(v, 1) \o <<Punct("]")>>
    ELSE <<Punct("{")>> \o dump_members(kind, v, keys_of(DOMAIN v), 1) \o <<Punct("}")>>

\* json.dump(data, f, indent=2, ensure_ascii=False)
json_dump(d) == dump_value("obj", d)

RECURSIVE parse_value(_, _)
RECURSIVE parse_members(_, _, _)
RECURSIVE parse_items(_, _, _)

\* after the member key: r, a comma continues the object and a brace ends it
after_member(ts, key, r, obj) ==
    IF ts[r.i].t = ","
    THEN parse_members(ts, r.i + 1, Put(obj, key, r.v))
    ELSE [v |-> Put(obj, key, r.v), i |-> r.i + 1]

\* the members of an object from token i on, obj: the members read so far
parse_members(ts, i, obj) == after_member(ts, ts[i].v, parse_value(ts, i + 2), obj)

\* after the element r, a comma continues the array and a bracket ends it
after_item(ts, r, arr) ==
    IF ts[r.i].t = ","
    THEN parse_items(ts, r.i + 1, Append(arr, r.v))
    ELSE [v |-> Append(arr, r.v), i |-> r.i + 1]

parse_items(ts, i, arr) == after_item(ts, parse_value(ts, i), arr)

\* the value that starts at token i, and the position after it
parse_value(ts, i) ==
    IF ts[i].t = "{"
    THEN IF ts[i + 1].t = "}" THEN [v |-> EmptyObj, i |-> i + 2]
         ELSE parse_members(ts, i + 1, EmptyObj)
    ELSE IF ts[i].t = "["
    THEN IF ts[i + 1].t = "]" THEN [v |-> <<>>, i |-> i + 2]
         ELSE parse_items(ts, i + 1, <<>>)
    ELSE [v |-> ts[i].v, i |-> i + 1]

\* json.load(f)
json_load(ts) == parse_value(ts, 1).v

\* -------------------------------------------------------------- extraction
\* Node type names are strings; Spell gives the characters of each name the model
\* uses, so that the substring tests of the code are computed, not assumed.
Spell ==
    ("CheckpointLoaderSimple" :> <<"C", "h", "e", "c", "k", "p", "o", "i", "n", "t", "L", "o", "a", "d", "e", "r", "S", "i", "m", "p", "l", "e">>)
    @@ ("CheckpointLoader" :> <<"C", "h", "e", "c", "k", "p", "o", "i", "n", "t", "L", "o", "a", "d", "e", "r">>)
    @@ ("LoraLoader" :> <<"L", "o", "r", "a", "L", "o", "a", "d", "e", "r">>)
    @@ ("LoraLoaderModelOnly" :> <<"L", "o", "r", "a", "L", "o", "a", "d", "e", "r", "M", "o", "d", "e", "l", "O", "n", "l", "y">>)
    @@ ("VAELoader" :> <<"V", "A", "E", "L", "o", "a", "d", "e", "r">>)
    @@ ("ControlNetLoader" :> <<"C", "o", "n", "t", "r", "o", "l", "N", "e", "t", "L", "o", "a", "d", "e", "r">>)
    @@ ("CLIPLoader" :> <<"C", "L", "I", "P", "L", "o", "a", "d", "e", "r">>)
    @@ ("DualCLIPLoader" :> <<"D", "u", "a", "l", "C", "L", "I", "P", "L", "o", "a", "d", "e", "r">>)
    @@ ("UNETLoader" :> <<"U", "N", "E", "T", "L", "o", "a", "d", "e", "r">>)
    @@ ("UpscaleModelLoader" :> <<"U", "p", "s", "c", "a", "l", "e", "M", "o", "d", "e", "l", "L", "o", "a", "d", "e", "r">>)
    @@ ("StyleModelLoader" :> <<"S", "t", "y", "l", "e", "M", "o", "d", "e", "l", "L", "o", "a", "d", "e", "r">>)
    @@ ("GLIGENLoader" :> <<"G", "L", "I", "G", "E", "N", "L", "o", "a", "d", "e", "r">>)
    @@ ("UnetLoaderGGUF" :> <<"U", "n", "e", "t", "L", "o", "a", "d", "e", "r", "G", "G", "U", "F">>)
    @@ ("UnetLoaderGGUFAdvanced" :> <<"U", "n", "e", "t", "L", "o", "a", "d", "e", "r", "G", "G", "U", "F", "A", "d", "v", "a", "n", "c", "e", "d">>)
    @@ ("CLIPLoaderGGUF" :> <<"C", "L", "I", "P", "L", "o", "a", "d", "e", "r", "G", "G", "U", "F">>)
    @@ ("DualCLIPLoaderGGUF" :> <<"D", "u", "a", "l", "C", "L", "I", "P", "L", "o", "a", "d", "e", "r", "G", "G", "U", "F">>)
    @@ ("TripleCLIPLoaderGGUF" :> <<"T", "r", "i", "p", "l", "e", "C", "L", "I", "P", "L", "o", "a", "d", "e", "r", "G", "G", "U", "F">>)
    @@ ("QuadrupleCLIPLoaderGGUF" :> <<"Q", "u", "a", "d", "r", "u", "p", "l", "e", "C", "L", "I", "P", "L", "o", "a", "d", "e", "r", "G", "G", "U", "F">>)
    @@ ("" :> <<>>)
    @@ ("a" :> <<"a">>)
    @@ ("l" :> <<"l">>)
    @@ ("KSampler" :> <<"K", "S", "a", "m", "p", "l", "e", "r">>)
    @@ ("ImageLoader" :> <<"I", "m", "a", "g", "e", "L", "o", "a", "d", "e", "r">>)
    @@ ("CLIPVisionLoader" :> <<"C", "L", "I", "P", "V", "i", "s", "i", "o", "n", "L", "o", "a", "d", "e", "r">>)
    @@ ("unCLIPCheckpointLoader" :> <<"u", "n", "C", "L", "I", "P", "C", "h", "e", "c", "k", "p", "o", "i", "n", "t", "L", "o", "a", "d", "e", "r">>)
    @@ ("XLoraloader" :> <<"X", "L", "o", "r", "a", "l", "o", "a", "d", "e", "r">>)
    @@ ("Loader" :> <<"L", "o", "a", "d", "e", "r">>)
    @@ ("Checkpoint" :> <<"C", "h", "e", "c", "k", "p", "o", "i", "n", "t">>)
    @@ ("Lora" :> <<"L", "o", "r", "a">>)
    @@ ("VAE" :> <<"V", "A", "E">>)
    @@ ("ControlNet" :> <<"C", "o", "n", "t", "r", "o", "l", "N", "e", "t">>)
    @@ ("CLIP" :> <<"C", "L", "I", "P">>)
    @@ ("UNET" :> <<"U", "N", "E", "T">>)
    @@ ("Upscale" :> <<"U", "p", "s", "c", "a", "l", "e">>)

UpperCase == <<"A", "B", "C", "D", "E", "F", "G", "H", "I", "J", "K", "L", "M", "N", "O", "P", "Q", "R", "S", "T", "U", "V", "W", "X", "Y", "Z">>

LowerCase == <<"a", "b", "c", "d", "e", "f", "g", "h", "i", "j", "k", "l", "m", "n", "o", "p", "q", "r", "s", "t", "u", "v", "w", "x", "y", "z">>

\* str.lower() of one character
lower_char(c) ==
    IF \E i \in 1..Len(UpperCase) : UpperCase[i] = c
    THEN LowerCase[CHOOSE i \in 1..Len(UpperCase) : UpperCase[i] = c]
    ELSE c

\* str.lower()
lower(w) == [i \in 1..Len(w) |-> lower_char(w[i])]

\* needle in hay (substring test on spelled strings)
contains(hay, needle) ==
    \E i \in 0..(Len(hay) - Len(needle)) :
        \A j \in 1..Len(needle) : hay[i + j] = needle[j]
\* MODEL_LOADERS: node class name -> (category, input keys)
MODEL_LOADERS ==
    ("CheckpointLoaderSimple" :> [category |-> "checkpoint", keys |-> <<"ckpt_name">>])
    @@ ("CheckpointLoader" :> [category |-> "checkpoint", keys |-> <<"ckpt_name">>])
    @@ ("LoraLoader" :> [category |-> "lora", keys |-> <<"lora_name">>])
    @@ ("LoraLoaderModelOnly" :> [category |-> "lora", keys |-> <<"lora_name">>])
    @@ ("VAELoader" :> [category |-> "vae", keys |-> <<"vae_name">>])
    @@ ("ControlNetLoader" :> [category |-> "controlnet", keys |-> <<"control_net_name">>])
    @@ ("CLIPLoader" :> [category |-> "clip", keys |-> <<"clip_name">>])
    @@ ("DualCLIPLoader" :> [category |-> "clip", keys |-> <<"clip_name1", "clip_name2">>])
    @@ ("UNETLoader" :> [category |-> "unet", keys |-> <<"unet_name">>])
    @@ ("UpscaleModelLoader" :> [category |-> "upscaler", keys |-> <<"model_name">>])
    @@ ("StyleModelLoader" :> [category |-> "style_model", keys |-> <<"style_model_name">>])
    @@ ("GLIGENLoader" :> [category |-> "gligen", keys |-> <<"gligen_name">>])
    @@ ("UnetLoaderGGUF" :> [category |-> "gguf", keys |-> <<"unet_name">>])
    @@ ("UnetLoaderGGUFAdvanced" :> [category |-> "gguf", keys |-> <<"unet_name">>])
    @@ ("CLIPLoaderGGUF" :> [category |-> "gguf", keys |-> <<"clip_name">>])
    @@ ("DualCLIPLoaderGGUF" :> [category |-> "gguf", keys |-> <<"clip_name1", "clip_name2">>])
    @@ ("TripleCLIPLoaderGGUF" :> [category |-> "gguf", keys |-> <<"clip_name1", "clip_name2", "clip_name3">>])
    @@ ("QuadrupleCLIPLoaderGGUF" :> [category |-> "gguf", keys |-> <<"clip_name1", "clip_name2", "clip_name3", "clip_name4">>])

\* LOADER_PATTERNS: (pattern_in_class_name, category, possible_input_keys)
LOADER_PATTERNS ==
    <<[pattern |-> "Checkpoint", category |-> "checkpoint", keys |-> <<"ckpt_name", "checkpoint", "model_name">>],
      [pattern |-> "Lora", category |-> "lora", keys |-> <<"lora_name", "lora">>],
      [pattern |-> "VAE", category |-> "vae", keys |-> <<"vae_name", "vae">>],
      [pattern |-> "ControlNet", category |-> "controlnet", keys |-> <<"control_net_name", "controlnet", "control_net">>],
      [pattern |-> "CLIP", category |-> "clip", keys |-> <<"clip_name", "clip">>],
      [pattern |-> "UNET", category |-> "unet", keys |-> <<"unet_name", "unet">>],
      [pattern |-> "Upscale", category |-> "upscaler", keys |-> <<"model_name", "upscale_model">>]>>

\* A node input value: a string (a file name, possibly empty) or something else
\* (a link to another node's output, a number).
Str(x) == [str |-> TRUE, s |-> x]
Link == [str |-> FALSE, s |-> "link"]

\* inputs.get(key), and the test `value and isinstance(value, str)`
usable(inputs, key) ==
    /\ key \in DOMAIN inputs.kv
    /\ inputs.kv[key].str
    /\ inputs.kv[key].s # ""

reference(category, value) ==
    [category |-> category, name |-> value, model_id |-> category \o "/" \o value]

\* _extract_from_inputs(category, input_keys, inputs), from the i-th key on
RECURSIVE extract_from_inputs(_, _, _, _)
extract_from_inputs(category, keys, inputs, i) ==
    IF i > Len(keys) THEN <<>>
    ELSE (IF usable(inputs, keys[i])
          THEN <<reference(category, inputs.kv[keys[i]].s)>>
          ELSE <<>>)
         \o extract_from_inputs(category, keys, inputs, i + 1)

\* _extract_from_patterns: the first key of possible_keys with a usable value
RECURSIVE first_key(_, _, _, _)
first_key(category, keys, inputs, i) ==
    IF i > Len(keys) THEN <<>>
    ELSE IF usable(inputs, keys[i])
    THEN <<reference(category, inputs.kv[keys[i]].s)>>
    ELSE first_key(category, keys, inputs, i + 1)

\* pattern.lower() in class_type.lower()
pattern_matches(p, class_type) ==
    contains(lower(Spell[class_type]), lower(Spell[LOADER_PATTERNS[p].pattern]))

\* The first pattern that matches (0: none): for pattern, ... : if ...: ...; break
RECURSIVE first_pattern(_, _)
first_pattern(class_type, p) ==
    IF p > Len(LOADER_PATTERNS) THEN 0
    ELSE IF pattern_matches(p, class_type) THEN p
    ELSE first_pattern(class_type, p + 1)

\* _extract_from_patterns, for the pattern p found
extract_for_pattern(p, inputs) ==
    IF p = 0 THEN <<>>
    ELSE first_key(LOADER_PATTERNS[p].category, LOADER_PATTERNS[p].keys, inputs, 1)

\* _extract_from_patterns(class_type, inputs): only the first matching pattern
extract_from_patterns(class_type, inputs) ==
    extract_for_pattern(first_pattern(class_type, 1), inputs)

\* The models list with the references of `extracted` not seen yet appended.
RECURSIVE add_unseen(_, _, _)
add_unseen(models, extracted, i) ==
    IF i > Len(extracted) THEN models
    ELSE add_unseen(
             IF \E j \in 1..Len(models) : models[j].model_id = extracted[i].model_id
             THEN models
             ELSE Append(models, extracted[i]),
             extracted, i + 1)

\* Whether the loop body reads inputs.get(...) for this node.
reads_inputs(node) ==
    IF node.class_type \in DOMAIN MODEL_LOADERS THEN TRUE
    ELSE /\ contains(Spell[node.class_type], Spell["Loader"])
         /\ \E p \in 1..Len(LOADER_PATTERNS) : pattern_matches(p, node.class_type)

\* A loop body that tries the patterns before the table (C14 rules it out).
extract_node_by_pattern(node, models) ==
    IF ~node.mapping \/ ~node.inputs.mapping
    THEN [exc |-> "AttributeError", models |-> models]
    ELSE IF first_pattern(node.class_type, 1) # 0
    THEN [exc |-> "none",
          models |-> add_unseen(models,
                         extract_from_patterns(node.class_type, node.inputs), 1)]
    ELSE IF node.class_type \in DOMAIN MODEL_LOADERS
    THEN [exc |-> "none",
          models |-> add_unseen(models,
                         extract_from_inputs(MODEL_LOADERS[node.class_type].category,
                                             MODEL_LOADERS[node.class_type].keys,
                                             node.inputs, 1), 1)]
    ELSE [exc |-> "none", models |-> models]

\* extract_models_from_prompt: the loop body for one node; AttributeError when
\* node_data or the inputs it reads has no .get
extract_node(node, models) ==
    IF ~node.mapping
    THEN [exc |-> "AttributeError", models |-> models]
    ELSE IF reads_inputs(node) /\ ~node.inputs.mapping
    THEN [exc |-> "AttributeError", models |-> models]
    ELSE IF node.class_type \in DOMAIN MODEL_LOADERS
    THEN [exc |-> "none",
          models |-> add_unseen(models,
                         extract_from_inputs(MODEL_LOADERS[node.class_type].category,
                                             MODEL_LOADERS[node.class_type].keys,
                                             node.inputs, 1), 1)]
    ELSE IF contains(Spell[node.class_type], Spell["Loader"])
    THEN [exc |-> "none",
          models |-> add_unseen(models,
                         extract_from_patterns(node.class_type, node.inputs), 1)]
    ELSE [exc |-> "none", models |-> models]

\* extract_models_from_prompt: for node_id, node_data in prompt.items()
RECURSIVE extract_loop(_, _, _)

\* r: what the loop body did for the i-th node
extract_next(r, nodes, i) ==
    IF r.exc # "none" THEN r ELSE extract_loop(nodes, i + 1, r.models)

extract_loop(nodes, i, models) ==
    IF i > Len(nodes) THEN [exc |-> "none", models |-> models]
    ELSE extract_next(extract_node(nodes[i], models), nodes, i)

\* extract_models_from_prompt(prompt); a prompt that is no mapping has no .items()
extract_models_from_prompt(prompt) ==
    IF ~prompt.mapping
    THEN [exc |-> "AttributeError", models |-> <<>>]
    ELSE extract_loop(prompt.nodes, 1, <<>>)

\* -------------------------------------------------------- get_usage_data
\* Dates are compared as ISO strings in the code; for the four-digit years of
\* isoformat() that is the order of the days, which DateOf counts.

\* timedelta(days=...) of the two timeframes
TimeframeDays == [week |-> 7, month |-> 30]

\* sum(entry["count"] for entry in usage_log if entry["date"] >= cutoff_date)
RECURSIVE count_since(_, _, _)
count_since(log, cutoff, i) ==
    IF i > Len(log) THEN 0
    ELSE (IF log[i].date >= cutoff THEN log[i].count ELSE 0) + count_since(log, cutoff, i + 1)

\* cutoff_date = cutoff.date().isoformat()
cutoff_date(timeframe, now) == DateOf(now - TimeframeDays[timeframe] * TicksPerDay)

\* A count that takes the whole log whatever the timeframe (C17 rules it out).
whole_log_count(rec, timeframe, now) == count_since(Get(rec, "usage_log", <<>>), 0, 1)

timeframe_count(rec, timeframe, now) ==
    IF timeframe \in DOMAIN TimeframeDays
    THEN count_since(Get(rec, "usage_log", <<>>), cutoff_date(timeframe, now), 1)
    ELSE rec.usage_count

\* models_list.append({...})
summary(id, rec, timeframe, now) ==
    [model_id |-> id, category |-> rec.category, name |-> rec.name,
     first_used |-> rec.first_used, last_used |-> rec.last_used,
     usage_count |-> rec.usage_count,
     timeframe_count |-> timeframe_count(rec, timeframe, now)]

\* if category and model_data["category"] != category: continue
listed(rec, category) == category = "" \/ rec.category = category

\* the order of two lower-case strings
RECURSIVE text_less(_, _, _)
text_less(x, y, i) ==
    IF i > Len(y) THEN FALSE
    ELSE IF i > Len(x) THEN TRUE
    ELSE IF x[i] # y[i]
    THEN (CHOOSE n \in 1..Len(LowerCase) : LowerCase[n] = x[i])
         < (CHOOSE n \in 1..Len(LowerCase) : LowerCase[n] = y[i])
    ELSE text_less(x, y, i + 1)

\* x sorts strictly before y
sorts_before(x, y, sort_by) ==
    IF sort_by = "usage_count" THEN x.timeframe_count > y.timeframe_count
    ELSE IF sort_by = "name" THEN text_less(lower(Spell[x.name]), lower(Spell[y.name]), 1)
    ELSE x.last_used > y.last_used

\* list.sort is stable: x goes before the first element it sorts strictly before
RECURSIVE sort_insert(_, _, _, _)
sort_insert(xs, x, sort_by, i) ==
    IF i > Len(xs) THEN Append(xs, x)
    ELSE IF sorts_before(x, xs[i], sort_by)
    THEN SubSeq(xs, 1, i - 1) \o <<x>> \o SubSeq(xs, i, Len(xs))
    ELSE sort_insert(xs, x, sort_by, i + 1)

RECURSIVE sorted_from(_, _, _, _)
sorted_from(xs, sort_by, i, acc) ==
    IF i > Len(xs) THEN acc
    ELSE sorted_from(xs, sort_by, i + 1, sort_insert(acc, xs[i], sort_by, 1))

\* for model_id, model_data in self.data["models"].items(), from the i-th on
RECURSIVE summaries(_, _, _, _, _, _)
summaries(ms, ids, i, timeframe, category, now) ==
    IF i > Len(ids) THEN <<>>
    ELSE (IF listed(ms[ids[i]], category)
          THEN <<summary(ids[i], ms[ids[i]], timeframe, now)>> ELSE <<>>)
         \o summaries(ms, ids, i + 1, timeframe, category, now)

\* get_usage_data(timeframe, sort_by, category) on the loaded document d
get_usage_data(d, timeframe, sort_by, category, now) ==
    [models |-> sorted_from(summaries(d.models, keys_of(DOMAIN d.models), 1,
                                      timeframe, category, now), sort_by, 1, <<>>),
     metadata |-> d.metadata, timeframe |-> timeframe, sort_by |-> sort_by]

\* ------------------------------------------------------------------ state

VARIABLES
    pc,        \* pc[p]: the statement process p is at
    lockFor,   \* lockFor[p]: the with-block p's FileLock belongs to
    marker,    \* the lock marker file <path>.lock: exists, age of its mtime, creator
    elapsed,   \* elapsed[p]: time.time() - start of p's running __enter__
    dataFile,  \* the content of usage_data.json
    tmpFile,   \* the content of usage_data.tmp
    fd,        \* fd[p]: where the file p has open for writing is linked now
    cache,     \* cache[p]: ModelTracker._data of p (None, or the document)
    data,      \* data[p]: the local `data` of p's load_data / save_data
    saveFor,   \* saveFor[p]: the caller of p's save_data
    op,        \* op[p]: the tracker operation p runs
    recorded,  \* history: the number of recordings made by record_usage so far
    crashes,   \* history: the number of crashes so far
    failed,    \* history: an operation has raised to its caller
    lastSaved, \* history: the document the last replace put in place (None: none yet)
    midCrash,  \* history: a save_data was interrupted and no replace happened since
    wrote,     \* history: wrote[p]: p's running save_data changed the data file
    event,     \* history: what the last step did
    file,      \* tracker model: the content of usage_data.json
    backup,    \* tracker model: the content of usage_data.backup.json
    quar,      \* tracker model: the corrupted files moved aside (their timestamps)
    tracker,   \* tracker model: ModelTracker._data (NoData, or the cached document)
    clock,     \* tracker model: datetime.utcnow(), in ticks
    calls,     \* history: the number of operations run so far
    counted,   \* history: per model identifier, its recordings by this tracker
    call,      \* history: the last operation, its inputs and its outcome
    mig,       \* migration model: the run of migrate_schema, statement by statement
    rt,        \* round-trip model: a document, the text save_data wrote, what load_data read
    ex,        \* extraction model: a graph and what extract_models_from_prompt made of it
    lg         \* usage-log model: a document, and what cleanup and get_usage_data made of it

lockVars == <<pc, lockFor, marker, elapsed>>
fileVars == <<dataFile, tmpFile, fd>>
trackerVars == <<cache, data, saveFor, op>>
histVars == <<recorded, crashes, failed, lastSaved, midCrash, wrote>>
storeVars == <<fileVars, trackerVars, histVars>>
pureVars == <<rt, ex, lg>>
detailVars == <<file, backup, quar, tracker, clock, calls, counted, call, mig, pureVars>>
vars == <<lockVars, storeVars, event, detailVars>>

\* What the last step of the lock and file model did; the single-process models
\* of the tracker and of the migration are not running.
Emit(e) == event' = e /\ UNCHANGED detailVars

NoMarker == [exists |-> FALSE, age |-> 0, by |-> "none"]

\* The first statement of the with-body a FileLock guards.
Body(for) ==
    CASE for = "hold" -> "cs"
      [] for = "load" -> "ld_read"
      [] for = "save" -> "sv_open"

\* Where the TimeoutError of __enter__ lands: __exit__ does not run.
OnTimeout(for) ==
    CASE for = "hold" -> "idle"
      [] for = "load" -> "ld_raise"
      [] for = "save" -> "sv_except"

\* ---------------------------------------------------------------- FileLock

\* start = time.time()
FileLock_enter(p, for) ==
    /\ pc' = [pc EXCEPT ![p] = "lk_create"]
    /\ lockFor' = [lockFor EXCEPT ![p] = for]
    /\ elapsed' = [elapsed EXCEPT ![p] = 0]
    /\ UNCHANGED marker

\* self._lock_file = open(self.lock_path, "x"): return self, or FileExistsError
FileLock_create(p) ==
    /\ pc[p] = "lk_create"
    /\ IF marker.exists
       THEN /\ pc' = [pc EXCEPT ![p] = "lk_stat"]
            /\ UNCHANGED <<marker, elapsed>>
       ELSE /\ marker' = [exists |-> TRUE, age |-> 0, by |-> p]
            /\ pc' = [pc EXCEPT ![p] = Body(lockFor[p])]
            /\ elapsed' = [elapsed EXCEPT ![p] = 0]
    /\ UNCHANGED lockFor

\* lock_age = time.time() - self.lock_path.stat().st_mtime; if lock_age > self.timeout
FileLock_stat(p) ==
    /\ pc[p] = "lk_stat"
    /\ pc' = [pc EXCEPT ![p] =
                 IF ~marker.exists THEN "lk_create"          \* FileNotFoundError: continue
                 ELSE IF marker.age > timeout THEN "lk_unlink"
                 ELSE "lk_check"]
    /\ UNCHANGED <<lockFor, marker, elapsed>>

\* self.lock_path.unlink(); continue   (FileNotFoundError: continue)
FileLock_unlink_stale(p) ==
    /\ pc[p] = "lk_unlink"
    /\ marker' = NoMarker
    /\ pc' = [pc EXCEPT ![p] = "lk_create"]
    /\ UNCHANGED <<lockFor, elapsed>>

\* if time.time() - start > self.timeout: raise TimeoutError; time.sleep(0.1)
FileLock_check(p) ==
    /\ pc[p] = "lk_check"
    /\ IF elapsed[p] > timeout
       THEN /\ pc' = [pc EXCEPT ![p] = OnTimeout(lockFor[p])]
            /\ elapsed' = [elapsed EXCEPT ![p] = 0]
       ELSE /\ pc' = [pc EXCEPT ![p] = "lk_create"]
            /\ UNCHANGED elapsed
    /\ UNCHANGED <<lockFor, marker>>

\* __exit__: self._lock_file.close(); self.lock_path.unlink()  (FileNotFoundError: pass)
FileLock_exit(p, next) ==
    /\ marker' = NoMarker
    /\ pc' = [pc EXCEPT ![p] = next]
    /\ UNCHANGED <<lockFor, elapsed>>

InEnter(p) == pc[p] \in {"lk_create", "lk_stat", "lk_unlink", "lk_check"}

\* Time passes: the marker's mtime and every running __enter__'s start get older.
Tick ==
    /\ marker' = IF marker.exists THEN [marker EXCEPT !.age = Older(@)] ELSE marker
    /\ elapsed' = [p \in Procs |-> IF InEnter(p) THEN Older(elapsed[p]) ELSE elapsed[p]]
    /\ UNCHANGED <<pc, lockFor>>
    /\ UNCHANGED storeVars
    /\ Emit(NoEvent)

\* ---------------------------------------------------------------- SpecLock

\* with FileLock(path): ...
Acquire(p) ==
    /\ pc[p] = "idle"
    /\ FileLock_enter(p, "hold")
    /\ UNCHANGED storeVars
    /\ Emit(NoEvent)

\* the end of the with-body
Release(p) ==
    /\ pc[p] = "cs"
    /\ FileLock_exit(p, "idle")
    /\ UNCHANGED storeVars
    /\ Emit(NoEvent)

\* The process dies (and a new one takes its name); what it left on disk stays.
CrashLock(p) ==
    /\ pc[p] # "idle"
    /\ pc' = [pc EXCEPT ![p] = "idle"]
    /\ elapsed' = [elapsed EXCEPT ![p] = 0]
    /\ UNCHANGED <<lockFor, marker>>
    /\ UNCHANGED storeVars
    /\ Emit(NoEvent)

LockSteps(p) ==
    /\ \/ FileLock_create(p)
       \/ FileLock_stat(p)
       \/ FileLock_unlink_stale(p)
       \/ FileLock_check(p)
    /\ UNCHANGED storeVars
    /\ Emit(NoEvent)

InitStore ==
    /\ dataFile = Absent
    /\ tmpFile = Absent
    /\ fd = [p \in Procs |-> "none"]
    /\ cache = [p \in Procs |-> None]
    /\ data = [p \in Procs |-> 0]
    /\ saveFor = [p \in Procs |-> "none"]
    /\ op = [p \in Procs |-> "none"]
    /\ recorded = 0
    /\ crashes = 0
    /\ failed = FALSE
    /\ lastSaved = None
    /\ midCrash = FALSE
    /\ wrote = [p \in Procs |-> FALSE]
    /\ event = NoEvent

InitLockStore ==
    /\ pc = [p \in Procs |-> "idle"]
    /\ lockFor = [p \in Procs |-> "hold"]
    /\ marker = NoMarker
    /\ elapsed = [p \in Procs |-> 0]
    /\ InitStore

\* The models of single functions are not running.
IdlePure ==
    /\ rt = [pc |-> "idle"]
    /\ ex = [pc |-> "idle"]
    /\ lg = [pc |-> "idle"]

\* The single-process models are not running.
IdleDetail ==
    /\ file = AbsentFile
    /\ backup = AbsentFile
    /\ quar = {}
    /\ tracker = NoData
    /\ clock = 0
    /\ calls = 0
    /\ counted = [origin |-> NoData, seen |-> EmptyObj]
    /\ call = [op |-> "none"]
    /\ mig = [pc |-> "idle"]
    /\ IdlePure

InitLock == InitLockStore /\ IdleDetail

NextLock ==
    \/ \E p \in Procs : Acquire(p)
    \/ \E p \in Procs : LockSteps(p)
    \/ \E p \in Procs : Release(p)
    \/ \E p \in Procs : CrashLock(p)
    \/ Tick

SpecLock == InitLock /\ [][NextLock]_vars

\* The same processes under fair scheduling. A process dies at most MaxCrashes
\* times, so that what goes on for ever is the running processes' doing.
CrashLockOnce(p) ==
    /\ crashes < MaxCrashes
    /\ pc[p] # "idle"
    /\ crashes' = crashes + 1
    /\ pc' = [pc EXCEPT ![p] = "idle"]
    /\ elapsed' = [elapsed EXCEPT ![p] = 0]
    /\ UNCHANGED <<lockFor, marker>>
    /\ UNCHANGED <<fileVars, trackerVars>>
    /\ UNCHANGED <<recorded, failed, lastSaved, midCrash, wrote>>
    /\ Emit(NoEvent)

NextLockFair ==
    \/ \E p \in Procs : Acquire(p)
    \/ \E p \in Procs : LockSteps(p)
    \/ \E p \in Procs : Release(p)
    \/ \E p \in Procs : CrashLockOnce(p)
    \/ Tick

\* Time passes again and again, a process inside __enter__ keeps running its
\* loop, and a with-body comes to its end. Nothing makes a process start an
\* acquisition, and a crash is never due.
FairLock ==
    /\ SF_vars(Tick)
    /\ \A p \in Procs : WF_vars(LockSteps(p))
    /\ \A p \in Procs : WF_vars(Release(p))

SpecLockFair == InitLock /\ [][NextLockFair]_vars /\ FairLock

\* -------------------------------------------------------------------- Spec

Ev(kind, p, n) == [kind |-> kind, p |-> p, n |-> n]

\* A path is renamed over or unlinked: the files open for writing keep their inode.
\* from: the path that goes away ("tmp", "data"); to: where it is linked next.
Relink(f, from, to) ==
    [q \in Procs |-> IF f[q] = from THEN to
                     ELSE IF f[q] = to /\ to # "orphan" THEN "orphan"
                     ELSE f[q]]

\* The tracker operation of p ends: back to the caller.
Done(p) ==
    /\ data' = [data EXCEPT ![p] = 0]
    /\ saveFor' = [saveFor EXCEPT ![p] = "none"]
    /\ op' = [op EXCEPT ![p] = "none"]
    /\ wrote' = [wrote EXCEPT ![p] = FALSE]

\* save_data(data), up to the with statement: stamp last_updated, temp_path, FileLock
save_data_begin(p, d, for) ==
    /\ data' = [data EXCEPT ![p] = d]
    /\ saveFor' = [saveFor EXCEPT ![p] = for]
    /\ wrote' = [wrote EXCEPT ![p] = FALSE]
    /\ FileLock_enter(p, "save")

\* record_usage(models) with one reference: self.data is the first thing it reads
StartRecord(p) ==
    /\ pc[p] = "idle"
    /\ recorded < MaxRecords
    /\ op' = [op EXCEPT ![p] = "record"]
    /\ pc' = [pc EXCEPT ![p] = IF cache[p] = None THEN "ld_exists" ELSE "rec_mutate"]
    /\ UNCHANGED <<lockFor, marker, elapsed, fileVars, cache, data, saveFor, histVars>>
    /\ Emit(NoEvent)

\* get_usage_data / get_model_detail on a tracker that has not loaded yet
StartQuery(p) ==
    /\ pc[p] = "idle"
    /\ cache[p] = None
    /\ op' = [op EXCEPT ![p] = "query"]
    /\ pc' = [pc EXCEPT ![p] = "ld_exists"]
    /\ UNCHANGED <<lockFor, marker, elapsed, fileVars, cache, data, saveFor, histVars>>
    /\ Emit(NoEvent)

\* load_data: if not storage_path.exists(): data = create_empty_data(); save_data(data)
\*            else: with FileLock(storage_path)
load_data_exists(p) ==
    /\ pc[p] = "ld_exists"
    /\ IF dataFile.k = "absent"
       THEN save_data_begin(p, 0, "init")
       ELSE /\ FileLock_enter(p, "load")
            /\ UNCHANGED <<data, saveFor, wrote>>
    /\ UNCHANGED <<fileVars, cache, op, recorded, crashes, failed, lastSaved, midCrash>>
    /\ Emit(NoEvent)

\* with open(storage_path, "r") as f: data = json.load(f)
load_data_read(p) ==
    /\ pc[p] = "ld_read"
    /\ CASE dataFile.k = "absent" ->       \* FileNotFoundError
              /\ pc' = [pc EXCEPT ![p] = "ld_exit_missing"]
              /\ UNCHANGED data
         [] dataFile.k = "partial" ->      \* json.JSONDecodeError
              /\ pc' = [pc EXCEPT ![p] = "ld_exit_corrupt"]
              /\ UNCHANGED data
         [] dataFile.k = "doc" ->
              /\ pc' = [pc EXCEPT ![p] = "ld_exit_ok"]
              /\ data' = [data EXCEPT ![p] = dataFile.n]
    /\ UNCHANGED <<lockFor, marker, elapsed, fileVars, cache, saveFor, op, histVars>>
    /\ Emit(NoEvent)

\* What the tracker does with the document load_data returned.
AfterLoad(p) == IF op[p] = "record" THEN "rec_mutate" ELSE "idle"

\* the with-block of load_data ends; migrate_schema(data) of a current document; return data
load_data_return(p) ==
    /\ pc[p] = "ld_exit_ok"
    /\ FileLock_exit(p, AfterLoad(p))
    /\ cache' = [cache EXCEPT ![p] = data[p]]
    /\ IF op[p] = "record"
       THEN UNCHANGED <<data, saveFor, op, wrote>>
       ELSE Done(p)
    /\ UNCHANGED <<fileVars, recorded, crashes, failed, lastSaved, midCrash>>
    /\ Emit(Ev("load_ret", p, data[p]))

\* the with-block of load_data ends by an exception
load_data_exit_exc(p) ==
    /\ pc[p] \in {"ld_exit_missing", "ld_exit_corrupt"}
    /\ FileLock_exit(p, IF pc[p] = "ld_exit_corrupt" THEN "bk_exists" ELSE "ld_raise")
    /\ UNCHANGED storeVars
    /\ Emit(NoEvent)

\* backup_corrupted_file: if storage_path.exists()
backup_corrupted_file_exists(p) ==
    /\ pc[p] = "bk_exists"
    /\ IF dataFile.k = "absent"
       THEN save_data_begin(p, 0, "recover")
       ELSE /\ pc' = [pc EXCEPT ![p] = "bk_rename"]
            /\ UNCHANGED <<lockFor, marker, elapsed, data, saveFor, wrote>>
    /\ UNCHANGED <<fileVars, cache, op, recorded, crashes, failed, lastSaved, midCrash>>
    /\ Emit(NoEvent)

\* storage_path.rename(backup_path); then data = create_empty_data(); save_data(data)
backup_corrupted_file_rename(p) ==
    /\ pc[p] = "bk_rename"
    /\ IF dataFile.k = "absent"
       THEN /\ pc' = [pc EXCEPT ![p] = "ld_raise"]      \* FileNotFoundError
            /\ UNCHANGED <<lockFor, marker, elapsed, fileVars, data, saveFor, wrote>>
            /\ Emit(NoEvent)
       ELSE /\ dataFile' = Absent
            /\ fd' = Relink(fd, "data", "orphan")
            /\ UNCHANGED tmpFile
            /\ save_data_begin(p, 0, "recover")
            /\ Emit(Ev("quarantine", p, IF dataFile.k = "doc" THEN dataFile.n ELSE None))
    /\ UNCHANGED <<cache, op, recorded, crashes, failed, lastSaved, midCrash>>

\* with open(temp_path, "w") as f:   (creates the file, or truncates the one there)
save_data_open(p) ==
    /\ pc[p] = "sv_open"
    /\ tmpFile' = Partial
    /\ fd' = [fd EXCEPT ![p] = "tmp"]
    /\ pc' = [pc EXCEPT ![p] = "sv_write"]
    /\ UNCHANGED <<lockFor, marker, elapsed, dataFile, trackerVars, histVars>>
    /\ Emit(NoEvent)

\* What a file holds after p wrote its document from offset 0 and closed: the
\* document, or, when another writer's bytes are already there, possibly a mix.
Written(old, d) == IF old.k = "doc" THEN {Doc(d), Partial} ELSE {Doc(d)}

\* json.dump(data, f, indent=2, ensure_ascii=False), and f is closed.
\* ok = FALSE: the write fails (OSError) and leaves what was there.
save_data_write(p, ok) ==
    /\ pc[p] = "sv_write"
    /\ fd' = [fd EXCEPT ![p] = "none"]
    /\ pc' = [pc EXCEPT ![p] = IF ok THEN "sv_replace" ELSE "sv_exit_exc"]
    /\ IF ~ok \/ fd[p] = "orphan"
       THEN UNCHANGED <<dataFile, tmpFile, wrote>>
       ELSE IF fd[p] = "tmp"
       THEN /\ tmpFile' \in Written(tmpFile, data[p])
            /\ UNCHANGED <<dataFile, wrote>>
       ELSE /\ dataFile' \in Written(dataFile, data[p])
            /\ wrote' = [wrote EXCEPT ![p] = TRUE]
            /\ UNCHANGED tmpFile
    /\ UNCHANGED <<lockFor, marker, elapsed, trackerVars, recorded, crashes, failed,
                   lastSaved, midCrash>>
    /\ Emit(NoEvent)

\* temp_path.replace(storage_path)
\* ok = FALSE: the replace fails (OSError); a missing temp_path fails it too.
save_data_replace(p, ok) ==
    /\ pc[p] = "sv_replace"
    /\ IF ok /\ tmpFile.k # "absent"
       THEN /\ dataFile' = tmpFile
            /\ tmpFile' = Absent
            /\ fd' = Relink(fd, "tmp", "data")
            /\ wrote' = [wrote EXCEPT ![p] = TRUE]
            /\ lastSaved' = data[p]
            /\ midCrash' = FALSE
            /\ pc' = [pc EXCEPT ![p] = "sv_exit"]
       ELSE /\ pc' = [pc EXCEPT ![p] = "sv_exit_exc"]
            /\ UNCHANGED <<fileVars, wrote, lastSaved, midCrash>>
    /\ UNCHANGED <<lockFor, marker, elapsed, trackerVars, recorded, crashes, failed>>
    /\ Emit(NoEvent)

\* the with-block of save_data ends and save_data returns:
\*   to load_data (lines 128, 145), which returns data to the tracker; or to _save
save_data_return(p) ==
    /\ pc[p] = "sv_exit"
    /\ IF saveFor[p] = "record"
       THEN /\ FileLock_exit(p, "idle")
            /\ Done(p)
            /\ UNCHANGED cache
            /\ Emit(Ev("saved", p, data[p]))
       ELSE /\ FileLock_exit(p, AfterLoad(p))
            /\ cache' = [cache EXCEPT ![p] = data[p]]
            /\ IF op[p] = "record"
               THEN UNCHANGED <<data, saveFor, op, wrote>>
               ELSE Done(p)
            /\ Emit(Ev("load_ret", p, data[p]))
    /\ UNCHANGED <<fileVars, recorded, crashes, failed, lastSaved, midCrash>>

\* the with-block of save_data ends by an exception
save_data_exit_exc(p) ==
    /\ pc[p] = "sv_exit_exc"
    /\ FileLock_exit(p, "sv_except")
    /\ UNCHANGED storeVars
    /\ Emit(NoEvent)

\* except Exception as e: if temp_path.exists(): temp_path.unlink(); raise e
save_data_except(p) ==
    /\ pc[p] = "sv_except"
    /\ tmpFile' = Absent
    /\ fd' = IF tmpFile.k = "absent" THEN fd ELSE Relink(fd, "tmp", "orphan")
    /\ pc' = [pc EXCEPT ![p] = "idle"]
    /\ failed' = TRUE
    /\ Done(p)
    /\ UNCHANGED <<lockFor, marker, elapsed, dataFile, cache, recorded, crashes,
                   lastSaved, midCrash>>
    /\ Emit(Ev("save_failed", p, IF wrote[p] THEN 1 ELSE 0))

\* an exception leaves load_data (TimeoutError, FileNotFoundError) and the operation
load_data_raise(p) ==
    /\ pc[p] = "ld_raise"
    /\ pc' = [pc EXCEPT ![p] = "idle"]
    /\ failed' = TRUE
    /\ Done(p)
    /\ UNCHANGED <<lockFor, marker, elapsed, fileVars, cache, recorded, crashes,
                   lastSaved, midCrash>>
    /\ Emit(Ev("load_failed", p, 0))

\* record_usage, the loop body for the one reference and self._save():
\*   model_data["usage_count"] += 1; save_data(self._data)
record_usage(p) ==
    /\ pc[p] = "rec_mutate"
    /\ cache' = [cache EXCEPT ![p] = @ + 1]
    /\ recorded' = recorded + 1
    /\ save_data_begin(p, cache[p] + 1, "record")
    /\ UNCHANGED <<fileVars, op, crashes, failed, lastSaved, midCrash>>
    /\ Emit(NoEvent)

\* save_data of p has started writing the temporary file and has not replaced yet.
MidSave(p) == pc[p] \in {"sv_write", "sv_replace"}

\* The process dies at any statement; a new process with a new tracker takes its
\* name.  Its files stay as they are, the marker too.
Crash(p) ==
    /\ pc[p] # "idle"
    /\ crashes < MaxCrashes
    /\ crashes' = crashes + 1
    /\ pc' = [pc EXCEPT ![p] = "idle"]
    /\ elapsed' = [elapsed EXCEPT ![p] = 0]
    /\ fd' = [fd EXCEPT ![p] = "none"]
    /\ cache' = [cache EXCEPT ![p] = None]
    /\ midCrash' = (midCrash \/ MidSave(p))
    /\ Done(p)
    /\ UNCHANGED <<lockFor, marker, dataFile, tmpFile, recorded, failed, lastSaved>>
    /\ Emit(IF MidSave(p) THEN Ev("crash_mid_save", p, 0) ELSE NoEvent)

StoreSteps(p) ==
    \/ StartRecord(p)
    \/ StartQuery(p)
    \/ load_data_exists(p)
    \/ load_data_read(p)
    \/ load_data_return(p)
    \/ load_data_exit_exc(p)
    \/ load_data_raise(p)
    \/ backup_corrupted_file_exists(p)
    \/ backup_corrupted_file_rename(p)
    \/ save_data_open(p)
    \/ \E ok \in BOOLEAN : save_data_write(p, ok)
    \/ \E ok \in BOOLEAN : save_data_replace(p, ok)
    \/ save_data_return(p)
    \/ save_data_exit_exc(p)
    \/ save_data_except(p)
    \/ record_usage(p)

Init == InitLock

Next ==
    \/ \E p \in Writers : StoreSteps(p)
    \/ \E p \in Writers : LockSteps(p)
    \/ \E p \in Writers : Crash(p)
    \/ Tick

Spec == Init /\ [][Next]_vars

\* ------------------------------------------------------------ ModelTracker
\* One process with one ModelTracker, documents in full.  Every operation is
\* one step; the outcome of each FileLock / write it runs is an input.

\* The exception classes the code can raise here; all derive from Exception.
Exception == {"AttributeError", "KeyError", "TimeoutError", "OSError"}

\* A handler for KeyError only (C7 rules it out).
catches_key_error(exc) == exc = "KeyError"

\* except Exception as e
catches(exc) == exc \in Exception

\* The outcome of the FileLock of a read, and of a save_data call (its FileLock
\* times out, or its write or replace fails: one exception leaves save_data
\* either way).
ReadOutcomes == {"ok", "TimeoutError"}
SaveOutcomes == {"ok", "OSError"}

\* What load_data finds at the path ("locked": it never got to read it).
load_found(f, rd) ==
    IF f.k = "absent" THEN "absent" ELSE IF rd # "ok" THEN "locked" ELSE f.k

State == [tracker |-> tracker, file |-> file, backup |-> backup, quar |-> quar]

\* What an operation did: the exception it raised, the state it left, what its
\* load_data (if any) found, raised and returned, and whether record_usage
\* went through its list.
Result(exc, st, found, loadExc, ret, ran) ==
    [exc |-> exc, st |-> st, found |-> found, loadExc |-> loadExc, ret |-> ret, ran |-> ran]

\* The result of an operation that did not read self.data
untouched(exc, st) == Result(exc, st, "cached", "none", NoData, FALSE)

\* self._data = load_data(): nothing is assigned when load_data raises
assigned(l) == IF l.exc = "none" THEN l.data ELSE NoData

\* l: what load_data did
loaded(l, found) ==
    Result(l.exc,
           [tracker |-> assigned(l), file |-> l.file, backup |-> l.backup, quar |-> l.quar],
           found, l.exc, assigned(l), FALSE)

\* ModelTracker.data: if self._data is None: self._data = load_data()
data_property(st, now, rd, sv) ==
    IF st.tracker # NoData
    THEN untouched("none", st)
    ELSE loaded(load_data(st.file, st.backup, st.quar, now, rd, sv), load_found(st.file, rd))

\* d: what self.data did before; s: what save_data did
saved(d, s, ran) ==
    Result(s.exc, [d.st EXCEPT !.tracker = s.data, !.file = s.file],
           d.found, d.loadExc, d.ret, ran)

\* ModelTracker._save after self._data became doc: save_data(self._data)
save(d, doc, now, sv, ran) == saved(d, save_data(doc, d.st.file, now, sv), ran)

\* record_usage after its loop (loop: what the loop did): self._save()
record_save(d, loop, now, sv) ==
    IF loop.exc # "none"
    THEN Result(loop.exc, [d.st EXCEPT !.tracker = loop.data], d.found, d.loadExc, d.ret, FALSE)
    ELSE save(d, loop.data, now, sv, TRUE)

\* record_usage from its first self.data on (d: what self.data did)
record_models(d, models, now, sv) ==
    IF d.exc # "none" THEN d
    ELSE record_save(d, record_loop(d.st.tracker, models, 1, now), now, sv)

\* A record_usage without its first test, `if not models: return` (C19 rules it out).
record_usage_unguarded(st, models, now, rd, sv1, sv2) ==
    record_models(data_property(st, now, rd, sv1), models, now, sv2)

\* ModelTracker.record_usage(models)
ModelTracker_record_usage(st, models, now, rd, sv1, sv2) ==
    IF models = <<>> THEN untouched("none", st)
    ELSE record_models(data_property(st, now, rd, sv1), models, now, sv2)

\* extract_and_record_models after the extraction (x: what it returned or raised);
\* models: the list handed to record_usage
record_extracted(st, x, now, rd, sv1, sv2) ==
    IF x.exc # "none"
    THEN untouched(x.exc, st) @@ [models |-> <<>>]
    ELSE ModelTracker_record_usage(st, x.models, now, rd, sv1, sv2) @@ [models |-> x.models]

\* ModelTracker.extract_and_record_models(prompt)
ModelTracker_extract_and_record_models(st, prompt, now, rd, sv1, sv2) ==
    record_extracted(st, extract_models_from_prompt(prompt), now, rd, sv1, sv2)

\* get_model_detail after self.data: ["models"].get(model_id)
detail_of(d) ==
    IF d.exc = "none" /\ ~Has(d.st.tracker, "models")
    THEN [d EXCEPT !.exc = "KeyError"]
    ELSE d

\* ModelTracker.get_model_detail(model_id)
ModelTracker_get_model_detail(st, now, rd, sv) == detail_of(data_property(st, now, rd, sv))

\* cleanup after self.data: self._data = cleanup_old_usage_logs(...); self._save()
cleanup_loaded(d, max_days, now, sv) ==
    IF d.exc # "none" THEN d
    ELSE save(d, cleanup_old_usage_logs(d.st.tracker, max_days, now), now, sv, FALSE)

\* ModelTracker.cleanup(max_days)
ModelTracker_cleanup(st, max_days, now, rd, sv1, sv2) ==
    cleanup_loaded(data_property(st, now, rd, sv1), max_days, now, sv2)

\* ModelTracker.reset(): self._data = create_empty_data(); self._save()
ModelTracker_reset(st, now, sv) == save(untouched("none", st), create_empty_data(now), now, sv, FALSE)

\* ---- the documents and requests the tracker model starts from and is given

record_a ==
    [category |-> "checkpoint", name |-> "a", path |-> "checkpoint/a",
     first_used |-> 0, last_used |-> 0, usage_count |-> 1,
     usage_log |-> <<[date |-> 0, count |-> 1]>>]

\* A document this version of the program wrote: one model, used once at time 0.
CurrentDoc ==
    [version |-> SCHEMA_VERSION,
     models |-> ("checkpoint/a" :> record_a),
     metadata |-> [tracking_started |-> 0, last_updated |-> 0]]

\* A document from before schema versions: no version, no metadata, records
\* without usage_log and first_used.
LegacyDoc ==
    [models |-> ("checkpoint/a" :> [category |-> "checkpoint", name |-> "a",
                                    path |-> "checkpoint/a", last_used |-> 0,
                                    usage_count |-> 2])]

\* A document that says version 0 and nothing else.
Version0Doc == [version |-> 0]

\* A document written by a later version of the program.
NewerDoc == [CurrentDoc EXCEPT !.version = SCHEMA_VERSION + 1]

\* A hand-edited document: the current version, no models and no metadata.
BareDoc == [version |-> SCHEMA_VERSION]

RawDocs == {CurrentDoc, LegacyDoc, Version0Doc, NewerDoc, BareDoc}

\* A file that is valid JSON but no object (its json.load result has no .get).
NotObjectFile == [k |-> "notobject"]

InitFiles == {AbsentFile, CorruptFile, NotObjectFile} \cup {DocFile(d) : d \in RawDocs}

Node(class_type, kv) ==
    [mapping |-> TRUE, class_type |-> class_type, inputs |-> [mapping |-> TRUE, kv |-> kv]]

\* The prompts (workflow graphs) the host executes.
Prompts ==
    << \* one checkpoint loader and a node that loads nothing
       [mapping |-> TRUE,
        nodes |-> <<Node("CheckpointLoaderSimple", [ckpt_name |-> Str("a")]),
                    Node("KSampler", [model |-> Link])>>],
       \* a lora, the checkpoint, and a custom loader naming the checkpoint again
       [mapping |-> TRUE,
        nodes |-> <<Node("LoraLoader", [lora_name |-> Str("l"), model |-> Link]),
                    Node("CheckpointLoaderSimple", [ckpt_name |-> Str("a")]),
                    Node("unCLIPCheckpointLoader", [ckpt_name |-> Str("a")])>>],
       \* no node
       [mapping |-> TRUE, nodes |-> <<>>],
       \* a node that is no mapping
       [mapping |-> TRUE,
        nodes |-> <<[mapping |-> FALSE, class_type |-> "", inputs |-> [mapping |-> FALSE, kv |-> <<>>]]>>],
       \* a prompt that is no mapping
       [mapping |-> FALSE, nodes |-> <<>>] >>

\* The reference lists record_usage is called with directly.
RefLists ==
    << <<reference("checkpoint", "a")>>,
       <<reference("checkpoint", "a"), reference("lora", "l")>>,
       <<reference("lora", "l"), reference("lora", "l")>>,
       <<>> >>

\* The JSON values true, false and a number in a request body.
JTrue == [bool |-> TRUE]
JFalse == [bool |-> FALSE]
JNumber(n) == [num |-> n]
JNull == [null |-> TRUE]

\* The bodies of the reset requests.
ResetBodies ==
    << [json |-> FALSE, object |-> FALSE, kv |-> EmptyObj],              \* no JSON
       [json |-> TRUE, object |-> FALSE, kv |-> EmptyObj],               \* []
       [json |-> TRUE, object |-> TRUE, kv |-> EmptyObj],                \* {}
       [json |-> TRUE, object |-> TRUE, kv |-> [confirm |-> JNumber(1)]],
       [json |-> TRUE, object |-> TRUE, kv |-> [confirm |-> JTrue]] >>

\* A test that takes every truthy value for a confirmation (C18 rules it out).
confirm_truthy(body) == Get(body.kv, "confirm", JNull) \notin {JNull, JFalse, JNumber(0)}

\* not (body.get("confirm") is not True)
confirmed(body) == Get(body.kv, "confirm", JNull) = JTrue

\* ---- history of the tracker model

NoCount == [origin |-> NoData, seen |-> EmptyObj]

NoCall ==
    [op |-> "none", arg |-> 0, found |-> "cached", loadExc |-> "none", ret |-> NoData,
     tracked |-> "none", exc |-> "none", host |-> 0, hostArg |-> 0, status |-> 0]

NoMig == [pc |-> "idle", raw |-> EmptyObj, doc |-> EmptyObj, writes |-> 0, exc |-> "none",
          again |-> [data |-> EmptyObj, wrote |-> FALSE]]

Ids(refs) == {refs[i].model_id : i \in 1..Len(refs)}

\* The number of times the identifier is in the list.
Count(refs, id) == Cardinality({i \in 1..Len(refs) : refs[i].model_id = id})

\* The history c with the list refs recorded at time now.
Recorded(c, refs, now) ==
    [c EXCEPT !.seen =
        [id \in DOMAIN c.seen \cup Ids(refs) |->
            IF id \in Ids(refs)
            THEN [n |-> (IF id \in DOMAIN c.seen THEN c.seen[id].n ELSE 0) + Count(refs, id),
                  last |-> now]
            ELSE c.seen[id]]]

\* The history after an operation r: a load or a reset starts it again from the
\* document the tracker then held; a record_usage that went through its list adds it.
Counted(r, fresh, refs, now) ==
    IF fresh THEN [origin |-> create_empty_data(now), seen |-> EmptyObj]
    ELSE IF r.found # "cached" /\ r.loadExc = "none"
    THEN Recorded([origin |-> r.ret, seen |-> EmptyObj], IF r.ran THEN refs ELSE <<>>, now)
    ELSE Recorded(counted, IF r.ran THEN refs ELSE <<>>, now)

\* The operation ends with result r: its effects on the tracker and on the files.
Commit(r, fresh, refs) ==
    /\ calls < MaxCalls
    /\ calls' = calls + 1
    /\ tracker' = r.st.tracker
    /\ file' = r.st.file
    /\ backup' = r.st.backup
    /\ quar' = r.st.quar
    /\ counted' = Counted(r, fresh, refs, clock)
    /\ UNCHANGED <<lockVars, storeVars, event, clock, mig, pureVars>>

Called(kind, arg, r) ==
    [op |-> kind, arg |-> arg, found |-> r.found, loadExc |-> r.loadExc, ret |-> r.ret,
     tracked |-> r.exc, exc |-> r.exc, host |-> 0, hostArg |-> 0, status |-> 0]

\* tracked_execute after the try statement (r: what the tracker did): an exception
\* the handler does not catch leaves tracked_execute, anything else is followed by
\* return _original_execute(self, prompt, prompt_id, extra_data, execute_outputs)
Hooked(i, r) ==
    IF r.exc # "none" /\ ~catches(r.exc)
    THEN Called("execute", i, r)
    ELSE [Called("execute", i, r) EXCEPT !.exc = "none", !.host = 1, !.hostArg = i]

Executed(i, r) == Commit(r, FALSE, r.models) /\ call' = Hooked(i, r)

Finished(kind, arg, r, fresh, refs) == Commit(r, fresh, refs) /\ call' = Called(kind, arg, r)

\* ---- the operations

\* tracked_execute(self, prompt, prompt_id, extra_data, execute_outputs)
tracked_execute(i, rd, sv1, sv2) ==
    Executed(i, ModelTracker_extract_and_record_models(State, Prompts[i], clock, rd, sv1, sv2))

\* tracker.record_usage(models), called directly
RecordUsage(i, rd, sv1, sv2) ==
    Finished("record", i, ModelTracker_record_usage(State, RefLists[i], clock, rd, sv1, sv2),
             FALSE, RefLists[i])

\* tracker.get_model_detail(model_id)
GetModelDetail(rd, sv) ==
    Finished("detail", 0, ModelTracker_get_model_detail(State, clock, rd, sv), FALSE, <<>>)

\* tracker.cleanup(max_days)
Cleanup(max_days, rd, sv1, sv2) ==
    Finished("cleanup", max_days, ModelTracker_cleanup(State, max_days, clock, rd, sv1, sv2), FALSE, <<>>)

\* The handler of POST /modelpulse/reset answers with status after the tracker did
\* r; an exception that leaves the handler makes the server answer 500.
Responded(i, r, fresh) ==
    /\ Commit(r, fresh, <<>>)
    /\ call' = [Called("reset", i, r) EXCEPT
                   !.status = IF r.exc # "none" THEN 500
                              ELSE IF fresh THEN 200 ELSE 400]

\* reset_tracking(request), the body of the request being ResetBodies[i]
reset_tracking(i, sv) ==
    IF ~ResetBodies[i].json                \* await request.json() raises: 400
    THEN Responded(i, untouched("none", State), FALSE)
    ELSE IF ~ResetBodies[i].object         \* body.get: AttributeError
    THEN Responded(i, untouched("AttributeError", State), FALSE)
    ELSE IF ~confirmed(ResetBodies[i])     \* 400
    THEN Responded(i, untouched("none", State), FALSE)
    ELSE Responded(i, ModelTracker_reset(State, clock, sv), TRUE)

\* Time passes between two operations.
Advance ==
    /\ clock < MaxClock
    /\ clock' = clock + 1
    /\ UNCHANGED <<lockVars, storeVars, event, file, backup, quar, tracker, calls,
                   counted, call, mig, pureVars>>

InitTracker ==
    /\ InitLockStore
    /\ file \in InitFiles
    /\ backup = AbsentFile
    /\ quar = {}
    /\ tracker = NoData
    /\ clock = 1
    /\ calls = 0
    /\ counted = NoCount
    /\ call = NoCall
    /\ mig = NoMig
    /\ IdlePure

\* The outcomes the environment can give the operation that starts now: the
\* FileLock of a read is entered only by a tracker that has not loaded yet and
\* finds a file; load_data saves only when it finds no file or a corrupted one.
ReadsNow == IF tracker = NoData /\ file.k # "absent" THEN ReadOutcomes ELSE {"ok"}
LoadSavesNow == IF tracker = NoData /\ file.k \in {"absent", "corrupt"} THEN SaveOutcomes ELSE {"ok"}

NextTracker ==
    \/ \E i \in 1..Len(Prompts), rd \in ReadsNow, sv1 \in LoadSavesNow, sv2 \in SaveOutcomes :
           tracked_execute(i, rd, sv1, sv2)
    \/ \E i \in 1..Len(RefLists), rd \in ReadsNow, sv1 \in LoadSavesNow, sv2 \in SaveOutcomes :
           RecordUsage(i, rd, sv1, sv2)
    \/ \E rd \in ReadsNow, sv \in LoadSavesNow : GetModelDetail(rd, sv)
    \/ \E max_days \in 1..MaxDays, rd \in ReadsNow, sv1 \in LoadSavesNow, sv2 \in SaveOutcomes :
           Cleanup(max_days, rd, sv1, sv2)
    \/ \E i \in 1..Len(ResetBodies), sv \in SaveOutcomes : reset_tracking(i, sv)
    \/ Advance

SpecTracker == InitTracker /\ [][NextTracker]_vars

\* --------------------------------------------------------- migrate_schema
\* migrate_schema statement by statement on a raw document, then applied once
\* more to what it returned.

MigrateVars == <<lockVars, storeVars, event, file, quar, tracker, counted, call, pureVars>>

\* migrate_schema(data) is called
migrate_schema_call(d) ==
    /\ mig.pc \in {"idle", "returned", "raised", "twice"}
    /\ calls < MaxCalls
    /\ calls' = calls + 1
    /\ mig' = [NoMig EXCEPT !.pc = "check", !.raw = d, !.doc = d]
    /\ UNCHANGED <<MigrateVars, backup, clock>>

\* current_version = data.get("version", 0); if current_version == SCHEMA_VERSION: return data
migrate_schema_check ==
    /\ mig.pc = "check"
    /\ mig' = [mig EXCEPT !.pc = IF is_current(mig.doc) THEN "returned" ELSE "backup"]
    /\ UNCHANGED <<MigrateVars, backup, clock, calls>>

\* with open(backup_path, "w") as f: json.dump(data, f, indent=2); an OSError
\* leaves the backup file as it was (open failed) or incomplete (the write failed)
migrate_schema_backup(ok) ==
    /\ mig.pc = "backup"
    /\ IF ok
       THEN /\ backup' = backup_write(mig.doc, backup)
            /\ mig' = [mig EXCEPT !.pc = "migrate", !.writes = @ + 1]
       ELSE /\ backup' \in {backup, CorruptFile}
            /\ mig' = [mig EXCEPT !.pc = "raised", !.exc = "OSError"]
    /\ UNCHANGED <<MigrateVars, clock, calls>>

\* if current_version < 1: data = migrate_to_v1(data)
migrate_schema_apply ==
    /\ mig.pc = "migrate"
    /\ mig' = [mig EXCEPT !.pc = "stamp", !.doc = apply_migrations(mig.doc, clock)]
    /\ UNCHANGED <<MigrateVars, backup, clock, calls>>

\* data["version"] = SCHEMA_VERSION; return data
migrate_schema_stamp ==
    /\ mig.pc = "stamp"
    /\ mig' = [mig EXCEPT !.pc = "returned", !.doc = stamp_version(mig.doc)]
    /\ UNCHANGED <<MigrateVars, backup, clock, calls>>

\* m: what migrate_schema does with the document the first call returned
Remigrated(m) ==
    /\ mig' = [mig EXCEPT !.pc = "twice", !.again = [data |-> m.data, wrote |-> m.wrote]]
    /\ backup' = m.backup

\* migrate_schema(migrate_schema(data))
migrate_schema_again ==
    /\ mig.pc = "returned"
    /\ Remigrated(migrate_schema(mig.doc, backup, clock))
    /\ UNCHANGED <<MigrateVars, clock, calls>>

InitMigrate ==
    /\ InitLockStore
    /\ file = AbsentFile
    /\ backup \in {AbsentFile, DocFile(Version0Doc)}
    /\ quar = {}
    /\ tracker = NoData
    /\ clock = 1
    /\ calls = 0
    /\ counted = NoCount
    /\ call = NoCall
    /\ mig = NoMig
    /\ IdlePure

NextMigrate ==
    \/ \E d \in RawDocs : migrate_schema_call(d)
    \/ migrate_schema_check
    \/ \E ok \in BOOLEAN : migrate_schema_backup(ok)
    \/ migrate_schema_apply
    \/ migrate_schema_stamp
    \/ migrate_schema_again
    \/ Advance

SpecMigrate == InitMigrate /\ [][NextMigrate]_vars

\* ---------------------------------------------------- save_data, load_data
\* One process writes a current-version document with save_data and reads it back
\* with load_data, no other writer in between.  The document is built by the
\* updates of record_usage, at different times.

RoundVars == <<lockVars, storeVars, event, file, backup, quar, tracker, counted, call,
               mig, ex, lg>>

\* the updates record_usage makes to the document in memory
round_record(i) ==
    /\ rt.pc \in {"held", "loaded"}
    /\ calls < MaxCalls
    /\ calls' = calls + 1
    /\ rt' = [rt EXCEPT !.pc = "held", !.doc = record_loop(rt.doc, RefLists[i], 1, clock).data]
    /\ UNCHANGED <<RoundVars, clock>>

\* s: what save_data(data) did; the text of the file is what json.dump wrote
round_saved(s) ==
    rt' = [rt EXCEPT !.pc = IF s.exc = "none" THEN "saved" ELSE "held",
                     !.given = rt.doc,
                     !.doc = s.data,
                     !.text = IF s.exc = "none" THEN json_dump(s.data) ELSE @]

\* save_data(data)
round_save(out) ==
    /\ rt.pc \in {"held", "loaded"}
    /\ round_saved(save_data(rt.doc, AbsentFile, clock, out))
    /\ UNCHANGED <<RoundVars, clock, calls>>

\* load_data(): json.load of the text, then migrate_schema
round_load ==
    /\ rt.pc = "saved"
    /\ rt' = [rt EXCEPT !.pc = "loaded",
                        !.loaded = load_data(DocFile(json_load(rt.text)), AbsentFile, {},
                                             clock, "ok", "ok").data]
    /\ UNCHANGED <<RoundVars, clock, calls>>

InitRound ==
    /\ InitLockStore
    /\ file = AbsentFile
    /\ backup = AbsentFile
    /\ quar = {}
    /\ tracker = NoData
    /\ clock = 1
    /\ calls = 0
    /\ counted = NoCount
    /\ call = NoCall
    /\ mig = NoMig
    /\ rt \in {[pc |-> "held", doc |-> d, given |-> d, text |-> <<>>, loaded |-> NoData] :
               d \in {create_empty_data(0), CurrentDoc}}
    /\ ex = [pc |-> "idle"]
    /\ lg = [pc |-> "idle"]

NextRound ==
    \/ \E i \in 1..Len(RefLists) : round_record(i)
    \/ \E out \in SaveOutcomes : round_save(out)
    \/ round_load
    \/ Advance

SpecRoundTrip == InitRound /\ [][NextRound]_vars

\* ------------------------------------- record_usage, cleanup, get_usage_data
\* One tracker with its document loaded (an empty one), over many days: the
\* document in memory under record_usage, cleanup and get_usage_data.

LogVars == <<lockVars, storeVars, event, file, backup, quar, tracker, calls, counted,
             call, mig, rt, ex>>

\* the days between two operations, and the retention periods asked for
Spans == {1, 7, 30}

Timeframes == {"all", "week", "month"}
SortKeys == {"last_used", "usage_count", "name"}
Categories == {"", "lora"}

\* history: per identifier the date of its last recording and the number of its
\* recordings on that date
SeenOn(seen, refs, today) ==
    [id \in DOMAIN seen \cup Ids(refs) |->
        IF id \in Ids(refs)
        THEN [date |-> today,
              n |-> (IF id \in DOMAIN seen /\ seen[id].date = today THEN seen[id].n ELSE 0)
                    + Count(refs, id)]
        ELSE seen[id]]

\* history: the identifiers whose usage_log is shorter in d than it was in before
Shortened(before, d) ==
    {id \in DOMAIN d.models :
        Len(d.models[id].usage_log) < Len(before.models[id].usage_log)}

\* self._save(): save_data stamps the document in memory before it writes
LogStep(kind, arg, d, before) ==
    lg' = [lg EXCEPT !.doc = stamp_last_updated(d, clock), !.steps = @ + 1, !.op = kind,
                     !.arg = arg, !.at = clock, !.before = before, !.out = NoData,
                     !.pruned = @ \cup Shortened(before, d)]

\* tracker.record_usage(models): an empty list returns at once
log_record(i) ==
    /\ lg.op # "query"
    /\ lg.steps < MaxSteps
    /\ lg' = [lg EXCEPT !.doc = IF RefLists[i] = <<>> THEN @
                                ELSE stamp_last_updated(
                                         record_loop(@, RefLists[i], 1, clock).data, clock),
                        !.steps = @ + 1, !.op = "record", !.arg = i, !.at = clock,
                        !.before = NoData, !.out = NoData,
                        !.seen = SeenOn(@, RefLists[i], DateOf(clock))]
    /\ UNCHANGED <<LogVars, clock>>

\* tracker.cleanup(max_days)
log_cleanup(max_days) ==
    /\ lg.op # "query"
    /\ lg.steps < MaxSteps
    /\ LogStep("cleanup", max_days, cleanup_old_usage_logs(lg.doc, max_days, clock), lg.doc)
    /\ UNCHANGED <<LogVars, clock>>

\* tracker.get_usage_data(timeframe, sort_by, category)
log_query(timeframe, sort_by, category) ==
    /\ lg.op # "query"
    /\ lg' = [lg EXCEPT !.op = "query", !.arg = timeframe, !.at = clock, !.before = lg.doc,
                        !.out = get_usage_data(lg.doc, timeframe, sort_by, category, clock)]
    /\ UNCHANGED <<LogVars, clock>>

\* the caller of get_usage_data has sent the result away
log_query_return ==
    /\ lg.op = "query"
    /\ lg' = [lg EXCEPT !.op = "none", !.arg = 0, !.at = 0, !.before = NoData, !.out = NoData]
    /\ UNCHANGED <<LogVars, clock>>

\* days pass
Pass(days) ==
    /\ lg.op # "query"
    /\ lg.steps < MaxSteps
    /\ clock' = clock + days * TicksPerDay
    /\ lg' = [lg EXCEPT !.steps = @ + 1, !.op = "none", !.arg = 0, !.at = 0,
                        !.before = NoData, !.out = NoData]
    /\ UNCHANGED LogVars

InitLogs ==
    /\ InitLockStore
    /\ file = AbsentFile
    /\ backup = AbsentFile
    /\ quar = {}
    /\ tracker = NoData
    /\ clock = 1
    /\ calls = 0
    /\ counted = NoCount
    /\ call = NoCall
    /\ mig = NoMig
    /\ rt = [pc |-> "idle"]
    /\ ex = [pc |-> "idle"]
    /\ lg = [doc |-> create_empty_data(0), steps |-> 0, op |-> "none", arg |-> 0, at |-> 0,
             before |-> NoData, out |-> NoData, seen |-> EmptyObj, pruned |-> {}]

NextLogs ==
    \/ \E i \in 1..Len(RefLists) : log_record(i)
    \/ \E max_days \in Spans : log_cleanup(max_days)
    \/ \E timeframe \in Timeframes, sort_by \in SortKeys, category \in Categories :
           log_query(timeframe, sort_by, category)
    \/ log_query_return
    \/ \E days \in Spans : Pass(days)
    \/ Advance

SpecLogs == InitLogs /\ [][NextLogs]_vars

\* ------------------------------------------------ extract_models_from_prompt
\* extract_models_from_prompt applied, twice, to the graphs of up to MaxNodes
\* nodes taken from NodePool, in the order prompt.items() gives them.

NodePool ==
    { Node("CheckpointLoaderSimple", [ckpt_name |-> Str("a")]),
      Node("LoraLoader", [lora_name |-> Str("l"), model |-> Link]),
      \* two input keys, both read
      Node("DualCLIPLoader", [clip_name1 |-> Str("c"), clip_name2 |-> Str("d")]),
      \* a custom loader the patterns find, naming the checkpoint again
      Node("unCLIPCheckpointLoader", [ckpt_name |-> Str("a")]),
      \* a class of the table whose table key is missing and whose inputs hold a
      \* key of the pattern its name contains
      Node("CheckpointLoaderSimple", [checkpoint |-> Str("b")]),
      \* nodes that load nothing
      Node("KSampler", [model |-> Link]),
      Node("XLoraloader", [lora_name |-> Str("l")]),
      \* no class_type
      Node("", [ckpt_name |-> Str("a")]),
      \* a node value that is no mapping
      [mapping |-> FALSE, class_type |-> "", inputs |-> [mapping |-> FALSE, kv |-> <<>>]],
      \* inputs that are no mapping, in a loader and in a node that loads nothing
      [mapping |-> TRUE, class_type |-> "LoraLoader", inputs |-> [mapping |-> FALSE, kv |-> <<>>]],
      [mapping |-> TRUE, class_type |-> "ImageLoader", inputs |-> [mapping |-> FALSE, kv |-> <<>>]] }

Graphs == UNION {[1..n -> NodePool] : n \in 0..MaxNodes}

ExtractVars == <<lockVars, storeVars, event, file, backup, quar, tracker, clock, calls,
                 counted, call, mig, rt, lg>>

\* tracker.extract_models_from_prompt(prompt), and the same call once more
extract(nodes) ==
    /\ ex.pc = "idle"
    /\ ex' = [pc |-> "done", nodes |-> nodes,
              result |-> extract_models_from_prompt([mapping |-> TRUE, nodes |-> nodes]),
              again |-> extract_models_from_prompt([mapping |-> TRUE, nodes |-> nodes])]
    /\ UNCHANGED ExtractVars

\* the caller drops the result
extract_return ==
    /\ ex.pc = "done"
    /\ ex' = [pc |-> "idle"]
    /\ UNCHANGED ExtractVars

InitExtract ==
    /\ InitLockStore
    /\ file = AbsentFile
    /\ backup = AbsentFile
    /\ quar = {}
    /\ tracker = NoData
    /\ clock = 1
    /\ calls = 0
    /\ counted = NoCount
    /\ call = NoCall
    /\ mig = NoMig
    /\ rt = [pc |-> "idle"]
    /\ ex = [pc |-> "idle"]
    /\ lg = [pc |-> "idle"]

NextExtract ==
    \/ \E nodes \in Graphs : extract(nodes)
    \/ extract_return

SpecExtract == InitExtract /\ [][NextExtract]_vars

\* ------------------------------------------------------------------ claims

InSection(p) ==
    pc[p] \in {"cs", "ld_read", "ld_exit_ok", "ld_exit_missing", "ld_exit_corrupt",
              "sv_open", "sv_write", "sv_replace", "sv_exit", "sv_exit_exc"}

\* C1: at most one process is inside a FileLock-protected section at any time.
C1_MutualExclusion == Cardinality({p \in Procs : InSection(p)}) <= 1

Quiet == \A p \in Writers : pc[p] = "idle"

\* C2: with no reset, no crash and no failed call, once every record_usage call of
\* every process has completed, the persisted usage_count equals the number of
\* recordings made by all processes together.
C2_NoLostRecording ==
    (Quiet /\ ~failed /\ crashes = 0 /\ recorded > 0) => dataFile = Doc(recorded)

\* C4: after a save_data was interrupted between the start of writing the temporary
\* file and the replace, and as long as no later save has replaced the data file, the
\* data file holds the complete document of the last successful save (what a later
\* load_data reads).
C4_AtomicSave ==
    (midCrash /\ lastSaved # None) => dataFile = Doc(lastSaved)

\* C6: when save_data fails, the error reaches the caller with no temporary file left
\* and with the data file not changed by the failing call.
C6_FailedSave ==
    event.kind = "save_failed" => (tmpFile = Absent /\ event.n = 0)

\* The usage_count the document the tracker loaded (or reset to) held for id.
Base(id) ==
    IF Has(counted.origin, "models") /\ id \in DOMAIN counted.origin.models
    THEN counted.origin.models[id].usage_count
    ELSE 0

\* The number of times id was in a list recorded since then.
Appeared(id) == IF id \in DOMAIN counted.seen THEN counted.seen[id].n ELSE 0

\* C3: in one tracker, after any sequence of record_usage calls, every model's
\* usage_count in the cached document is the count the document had when the
\* tracker loaded it (0 for a model that was not in it) plus the number of times
\* its identifier appeared in the recorded lists, and the last_used of a recorded
\* model is the time of the last record_usage call that contained it.
C3_CounterCorrectness ==
    (tracker # NoData /\ Has(tracker, "models")) =>
        /\ DOMAIN counted.seen \subseteq DOMAIN tracker.models
        /\ \A id \in DOMAIN tracker.models :
              /\ tracker.models[id].usage_count = Base(id) + Appeared(id)
              /\ Appeared(id) > 0 => tracker.models[id].last_used = counted.seen[id].last

\* A model the loaded document already counted has been recorded in two calls,
\* at different times.
C3_Witness ==
    /\ tracker # NoData
    /\ "checkpoint/a" \in DOMAIN counted.seen
    /\ counted.seen["checkpoint/a"].n >= 2
    /\ Base("checkpoint/a") > 0
    /\ counted.seen["checkpoint/a"].last > 1
    /\ tracker.models["checkpoint/a"].usage_count = Base("checkpoint/a") + 2

\* C5: when load_data finds a data file that does not parse, it moves the file
\* aside under a timestamped name, returns a fresh empty document with the
\* current version, and raises nothing.
C5_CorruptionRecovery ==
    call.found = "corrupt" =>
        /\ call.loadExc = "none"
        /\ quar # {}
        /\ call.ret # NoData
        /\ call.ret.version = SCHEMA_VERSION
        /\ call.ret.models = EmptyObj

\* C7: whatever the tracker raises inside tracked_execute, the host's original
\* execute is called exactly once, with the arguments tracked_execute was given,
\* and nothing is raised into the host.
C7_HostIsolation ==
    call.op = "execute" => (call.host = 1 /\ call.hostArg = call.arg /\ call.exc = "none")

\* The tracker raised (a malformed graph, a lock timeout, a failed save, a
\* missing field) and the host's execute was called all the same.
C7_Witness ==
    /\ call.op = "execute"
    /\ call.tracked \in {"AttributeError", "TimeoutError", "OSError", "KeyError"}
    /\ call.host = 1

\* C8: every document load_data returns has version = SCHEMA_VERSION, and so has
\* the tracker's cached document after any record, cleanup and reset.
C8_VersionInvariant ==
    /\ call.ret # NoData => (Has(call.ret, "version") /\ call.ret.version = SCHEMA_VERSION)
    /\ tracker # NoData => (Has(tracker, "version") /\ tracker.version = SCHEMA_VERSION)

\* load_data returned the migrated document of a file written by a later version.
C8_Witness ==
    /\ call.found = "doc"
    /\ call.ret # NoData
    /\ backup = DocFile(NewerDoc)
    /\ call.ret.version = SCHEMA_VERSION

\* C9: whenever migrate_schema has changed the document it was given, the backup
\* file holds the unmodified raw document; and a document already at the current
\* version causes no backup write.
C9_BackupPrecedesMigration ==
    /\ (mig.pc \in {"migrate", "stamp", "returned"} /\ mig.doc # mig.raw) =>
           backup = DocFile(mig.raw)
    /\ (mig.pc # "idle" /\ is_current(mig.raw)) => mig.writes = 0

\* A document below the current version has been transformed, its backup written.
C9_Witness ==
    /\ mig.pc = "stamp"
    /\ current_version(mig.raw) < SCHEMA_VERSION
    /\ mig.doc # mig.raw
    /\ mig.writes = 1

\* C10: migrate_schema applied to a document at the current version returns it
\* unchanged and writes no backup, so applying migrate_schema to what
\* migrate_schema returned changes nothing.
C10_IdempotentMigration ==
    /\ (mig.pc = "returned" /\ is_current(mig.raw)) => (mig.doc = mig.raw /\ mig.writes = 0)
    /\ mig.pc = "twice" => (mig.again.data = mig.doc /\ ~mig.again.wrote)

\* migrate_schema was applied again to the result of a real migration.
C10_Witness ==
    /\ mig.pc = "twice"
    /\ mig.raw = LegacyDoc
    /\ mig.doc # mig.raw
    /\ mig.again.data = mig.doc


\* d without metadata.last_updated
but_last_updated(d) ==
    [k \in DOMAIN d |->
        IF k = "metadata"
        THEN [m \in DOMAIN d.metadata \ {"last_updated"} |-> d.metadata[m]]
        ELSE d[k]]

\* C11: save_data of a current-version document followed by load_data, with no
\* other writer in between, returns a document whose models mapping equals the one
\* saved; nothing but metadata.last_updated differs from the document that was
\* given to save_data, and nothing at all from that document as save_data left it.
C11_RoundTrip ==
    rt.pc = "loaded" =>
        /\ rt.loaded.models = rt.given.models
        /\ but_last_updated(rt.loaded) = but_last_updated(rt.given)
        /\ rt.loaded = rt.doc

\* a document of two models, one used on two days, comes back with a new last_updated
C11_Witness ==
    /\ rt.pc = "loaded"
    /\ Cardinality(DOMAIN rt.given.models) = 2
    /\ \E id \in DOMAIN rt.given.models : Len(rt.given.models[id].usage_log) = 2
    /\ rt.loaded.metadata.last_updated # rt.given.metadata.last_updated


\* the usage_log of the model id in the document of the usage-log model
LogOf(id) == lg.doc.models[id].usage_log

\* C12: from an empty document and with a clock that never goes back, after any
\* sequence of record_usage and cleanup operations every usage_log has at most one
\* entry per date, in ascending order of date, only positive counts, and an entry
\* for today only as its last element; the recordings of a model on one date make
\* one entry, whose count is their number.
C12_DailyLog ==
    \A id \in DOMAIN lg.doc.models :
        /\ \A i, j \in 1..Len(LogOf(id)) : i < j => LogOf(id)[i].date < LogOf(id)[j].date
        /\ \A i \in 1..Len(LogOf(id)) :
              /\ LogOf(id)[i].count > 0
              /\ LogOf(id)[i].date = DateOf(clock) => i = Len(LogOf(id))
              /\ (id \in DOMAIN lg.seen /\ LogOf(id)[i].date = lg.seen[id].date)
                    => LogOf(id)[i].count = lg.seen[id].n
        /\ (lg.op = "record" /\ id \in Ids(RefLists[lg.arg]))
              => /\ LogOf(id) # <<>>
                 /\ LogOf(id)[Len(LogOf(id))] = [date |-> lg.seen[id].date, count |-> lg.seen[id].n]

\* a model recorded three times on the day after its first use, after a cleanup
C12_Witness ==
    /\ lg.op = "record"
    /\ "lora/l" \in DOMAIN lg.doc.models
    /\ Len(LogOf("lora/l")) = 2
    /\ LogOf("lora/l")[2].count = 3


\* the three malformations of a node entry
malformed(node) == ~node.mapping \/ ~node.inputs.mapping \/ node.class_type = ""

\* C13: for every graph in which some node entries are malformed (node value not a
\* mapping, inputs not a mapping, no class_type), extract_models_from_prompt does
\* not fail and returns exactly the references of the well-formed entries.
C13_MalformedSkipped ==
    ex.pc = "done" =>
        /\ ex.result.exc = "none"
        /\ ex.result.models
              = extract_loop(SelectSeq(ex.nodes, LAMBDA n : ~malformed(n)), 1, <<>>).models

\* what the table says the inputs of a node of class class_type name
table_names(class_type, inputs) ==
    {reference(MODEL_LOADERS[class_type].category, inputs.kv[k].s).model_id :
        k \in {MODEL_LOADERS[class_type].keys[i] :
                  i \in 1..Len(MODEL_LOADERS[class_type].keys)} \cap
              {k \in DOMAIN inputs.kv : inputs.kv[k].str /\ inputs.kv[k].s # ""}}

\* what the loop body makes of one node alone
alone(node) == extract_models_from_prompt([mapping |-> TRUE, nodes |-> <<node>>])

\* C14: for every node whose class_type is a key of MODEL_LOADERS, extraction takes
\* the category and the input keys of the table only and never the pattern
\* fallback, also when the class_type contains a pattern of LOADER_PATTERNS and the
\* keys of the table name nothing.
C14_ExactMatchPrecedence ==
    ex.pc = "done" =>
        \A i \in 1..Len(ex.nodes) :
            (/\ ex.nodes[i].mapping
             /\ ex.nodes[i].inputs.mapping
             /\ ex.nodes[i].class_type \in DOMAIN MODEL_LOADERS)
            => /\ Ids(alone(ex.nodes[i]).models)
                     = table_names(ex.nodes[i].class_type, ex.nodes[i].inputs)
               /\ ex.result.exc = "none"
                     => table_names(ex.nodes[i].class_type, ex.nodes[i].inputs)
                           \subseteq Ids(ex.result.models)

\* a CheckpointLoaderSimple without ckpt_name, whose inputs hold the key
\* "checkpoint" of the pattern "Checkpoint": nothing is extracted from it
C14_Witness ==
    /\ ex.pc = "done"
    /\ Len(ex.nodes) = 2
    /\ ex.nodes[1] = Node("CheckpointLoaderSimple", [checkpoint |-> Str("b")])
    /\ ex.nodes[2] = Node("LoraLoader", [lora_name |-> Str("l"), model |-> Link])
    /\ Ids(ex.result.models) = {"lora/l"}

\* what a node names: by the table for a class of the table, by the patterns for
\* another class that contains "Loader", nothing for a malformed node
named_by(node) ==
    IF ~node.mapping \/ ~node.inputs.mapping THEN <<>>
    ELSE IF node.class_type \in DOMAIN MODEL_LOADERS
    THEN extract_from_inputs(MODEL_LOADERS[node.class_type].category,
                             MODEL_LOADERS[node.class_type].keys, node.inputs, 1)
    ELSE IF contains(Spell[node.class_type], Spell["Loader"])
    THEN extract_from_patterns(node.class_type, node.inputs)
    ELSE <<>>

\* every reference the nodes name, in node-visitation order, repetitions included
RECURSIVE all_named(_, _)
all_named(nodes, i) ==
    IF i > Len(nodes) THEN <<>> ELSE named_by(nodes[i]) \o all_named(nodes, i + 1)

\* the position of the first reference with this identifier
first_at(refs, id) == CHOOSE i \in 1..Len(refs) :
    refs[i].model_id = id /\ \A j \in 1..(i - 1) : refs[j].model_id # id

\* C15: for every graph, extract_models_from_prompt returns a list in which no two
\* references share a model_id and which holds each identifier found in the graph
\* once, at the position of its first occurrence in node-visitation order; a second
\* call with the same graph returns the same.
C15_DedupAndOrder ==
    ex.pc = "done" =>
        /\ ex.result.exc = "none"
        /\ ex.again = ex.result
        /\ Ids(ex.result.models) = Ids(all_named(ex.nodes, 1))
        /\ \A i \in 1..Len(ex.result.models) :
              ex.result.models[i]
                 = all_named(ex.nodes, 1)[first_at(all_named(ex.nodes, 1), ex.result.models[i].model_id)]
        /\ \A i, j \in 1..Len(ex.result.models) :
              i < j => first_at(all_named(ex.nodes, 1), ex.result.models[i].model_id)
                          < first_at(all_named(ex.nodes, 1), ex.result.models[j].model_id)


\* C16: cleanup(max_days) leaves in each usage_log exactly the entries dated on or
\* after today minus max_days, in their order, and leaves the set of model records
\* and every record's usage_count, first_used and last_used (and its other
\* fields) as they were.
C16_RetentionPreservesTotals ==
    lg.op = "cleanup" =>
        /\ DOMAIN lg.doc.models = DOMAIN lg.before.models
        /\ \A id \in DOMAIN lg.before.models :
              /\ LogOf(id) = SelectSeq(lg.before.models[id].usage_log,
                                       LAMBDA e : e.date >= DateOf(lg.at) - lg.arg)
              /\ \A k \in DOMAIN lg.before.models[id] \ {"usage_log"} :
                    lg.doc.models[id][k] = lg.before.models[id][k]
              /\ DOMAIN lg.doc.models[id] = DOMAIN lg.before.models[id]

\* a cleanup that removed the older of two entries and kept the other
C16_Witness ==
    /\ lg.op = "cleanup"
    /\ \E id \in DOMAIN lg.doc.models :
          /\ Len(lg.before.models[id].usage_log) = 2
          /\ LogOf(id) = <<lg.before.models[id].usage_log[2]>>
          /\ lg.doc.models[id].usage_count > LogOf(id)[1].count

\* the sum of the counts of the entries of log dated on or after day
RECURSIVE sum_from(_, _, _)
sum_from(log, day, S) ==
    IF S = {} THEN 0
    ELSE (IF log[CHOOSE i \in S : TRUE].date >= day THEN log[CHOOSE i \in S : TRUE].count ELSE 0)
         + sum_from(log, day, S \ {CHOOSE i \in S : TRUE})

\* the record a summary of the last query is about
Queried(i) == lg.doc.models[lg.out.models[i].model_id]

\* C17: for every model get_usage_data returns, timeframe_count is the sum of count
\* over the log entries dated on or after now minus 7 days (week) or now minus 30
\* days (month), and the record's usage_count when the timeframe is all; the query
\* leaves the document as it was.
C17_TimeWindowedCount ==
    lg.op = "query" =>
        /\ lg.doc = lg.before
        /\ \A i \in 1..Len(lg.out.models) :
              lg.out.models[i].timeframe_count =
                  IF lg.arg = "week"
                  THEN sum_from(Queried(i).usage_log, DateOf(lg.at) - 7,
                                DOMAIN Queried(i).usage_log)
                  ELSE IF lg.arg = "month"
                  THEN sum_from(Queried(i).usage_log, DateOf(lg.at) - 30,
                                DOMAIN Queried(i).usage_log)
                  ELSE Queried(i).usage_count

\* a month query on a model used 31 days ago and today: only today's use counts
C17_Witness ==
    /\ lg.op = "query"
    /\ lg.arg = "month"
    /\ \E i \in 1..Len(lg.out.models) :
          /\ Len(Queried(i).usage_log) = 2
          /\ Queried(i).usage_log[1].date = DateOf(lg.at) - 31
          /\ lg.out.models[i].timeframe_count = Queried(i).usage_log[2].count
          /\ lg.out.models[i].usage_count > lg.out.models[i].timeframe_count


\* the identifiers of the records of a document (none before it is loaded)
RecordsOf(d) == IF d # NoData /\ Has(d, "models") THEN DOMAIN d.models ELSE {}

\* the step is a reset request with the body {"confirm": true}
ConfirmedReset ==
    /\ calls' = calls + 1
    /\ call'.op = "reset"
    /\ ResetBodies[call'.arg].json
    /\ ResetBodies[call'.arg].object
    /\ Has(ResetBodies[call'.arg].kv, "confirm")
    /\ ResetBodies[call'.arg].kv.confirm = JTrue

\* C18: a reset request whose body is no JSON or whose confirm is not exactly true
\* is answered with an error and leaves the cached document and the data file as
\* they were; the cached document loses model records only in a confirmed reset, in
\* no other operation (record, query, cleanup, tracked execution).
C18_ResetNeedsConfirmation ==
    [][/\ (calls' = calls + 1 /\ call'.op = "reset" /\ ~ConfirmedReset)
             => (tracker' = tracker /\ file' = file /\ call'.status \in {400, 500})
       /\ ~ConfirmedReset => RecordsOf(tracker) \subseteq RecordsOf(tracker')]_vars

\* the request {"confirm": 1} on a tracker and a file that hold records: refused
C18_Witness ==
    /\ call.op = "reset"
    /\ ResetBodies[call.arg].kv = [confirm |-> JNumber(1)]
    /\ call.status = 400
    /\ RecordsOf(tracker) # {}
    /\ file.k = "doc"
    /\ RecordsOf(file.d) # {}


\* C19: record_usage called with an empty list does not load the document, does
\* not change the cached document, and saves nothing and enters no FileLock: the
\* files stay as they are and the call returns normally whatever the outcome a
\* lock or a write would have had.
C19_EmptyRecordingNoOp ==
    [][(calls' = calls + 1 /\ call'.op = "record" /\ RefLists[call'.arg] = <<>>)
          => /\ tracker' = tracker
             /\ file' = file
             /\ backup' = backup
             /\ quar' = quar
             /\ call'.found = "cached"
             /\ call'.exc = "none"]_vars

\* an empty list recorded by a tracker that has not loaded yet, the data file
\* being unreadable: nothing was loaded and nothing recovered
C19_Witness ==
    /\ call.op = "record"
    /\ RefLists[call.arg] = <<>>
    /\ tracker = NoData
    /\ file = CorruptFile
    /\ quar = {}


\* C20: a process that is acquiring the lock deletes the marker only if the marker
\* it deletes is older than the timeout: a marker another process created less
\* than the timeout ago is never deleted by the unlink of __enter__, however the
\* age check and the unlink interleave with the other processes.
C20_OnlyAbandonedRemoved ==
    [][\A p \in Procs :
          (pc[p] = "lk_unlink" /\ pc'[p] = "lk_create" /\ marker.exists)
             => marker.age > timeout]_vars


\* C21: under fair scheduling every call of FileLock.__enter__ ends: it acquires
\* the marker or raises TimeoutError, however the other processes acquire and
\* release the marker meanwhile, the retries after the removal of a stale marker
\* and after the marker vanished included.
C21_AcquisitionTerminates == \A p \in Procs : InEnter(p) ~> ~InEnter(p)


\* q holds the lock inside save_data and the temporary file at temp_path is the
\* one it opened.
TempOf(q) ==
    /\ marker.exists /\ marker.by = q
    /\ MidSave(q)
    /\ tmpFile.k # "absent"
    /\ \A r \in Writers \ {q} : ~InSection(r)

\* C22: a save_data that fails in one process (with a lock timeout, for example)
\* while another process holds the lock between writing the temporary file and
\* replacing the data file does not delete that process's temporary file.
C22_FailingSaveKeepsOthersTemp ==
    [][\A p \in Writers :
          (pc[p] = "sv_except" /\ pc'[p] = "idle")
              => \A q \in Writers \ {p} : TempOf(q) => tmpFile' = tmpFile]_vars


\* The data file is a well-formed document that holds model records.
HasRecords(f) == f.k = "doc" /\ f.n >= 1

\* p is inside load_data: at its checks, or in the save_data load_data calls.
InLoad(p) ==
    \/ pc[p] \in {"ld_exists", "ld_read", "ld_exit_ok", "ld_exit_missing",
                  "ld_exit_corrupt", "bk_exists", "bk_rename"}
    \/ saveFor[p] \in {"init", "recover"}

\* C23: in every interleaving of load_data in one process with save_data in
\* another, load_data never replaces a well-formed data file that holds model
\* records with an empty document, and never renames a well-formed data file
\* aside as corrupted.
C23_LoadKeepsValidData ==
    [][\A p \in Writers :
          /\ (InLoad(p) /\ pc[p] = "sv_replace" /\ pc'[p] = "sv_exit")
                 => ~(HasRecords(dataFile) /\ dataFile' = Doc(0))
          /\ (pc[p] = "bk_rename" /\ dataFile' = Absent)
                 => dataFile.k # "doc"]_vars


\* the sum of count over the usage_log of id
LogTotal(id) == sum_from(LogOf(id), 0, DOMAIN LogOf(id))

\* what get_usage_data counts for the record of id now
CountIn(id, timeframe) == timeframe_count(lg.doc.models[id], timeframe, clock)

\* C24: starting from an empty document, after any sequence of record_usage and
\* cleanup operations, for every model the sum of count over its usage_log is at
\* most its usage_count, and equal to it as long as no cleanup removed an entry
\* of the model; hence its week count is at most its month count, which is at
\* most its count over all time.
C24_LogWithinTotal ==
    \A id \in DOMAIN lg.doc.models :
        /\ LogTotal(id) <= lg.doc.models[id].usage_count
        /\ id \notin lg.pruned => LogTotal(id) = lg.doc.models[id].usage_count
        /\ CountIn(id, "week") <= CountIn(id, "month")
        /\ CountIn(id, "month") <= CountIn(id, "all")

\* a model used on two days whose older entry a cleanup removed: the log holds
\* less than the count, the month less than all time
C24_Witness ==
    \E id \in DOMAIN lg.doc.models :
        /\ id \in lg.pruned
        /\ LogTotal(id) > 0
        /\ LogTotal(id) < lg.doc.models[id].usage_count
        /\ CountIn(id, "week") > 0
        /\ CountIn(id, "month") < CountIn(id, "all")

====
